---- MODULE Spec2Model ----
(***************************************************************************)
(* Client-side document ingestion and retrieval pipeline of ProjetGMAO:    *)
(* document-processing/processor.ts (extract, chunk, embed, merge, store), *)
(* vector-store/local-store.ts (search, stats), document-management/utils  *)
(* (delete, details, export, storage stats) and the IndexedDB wrapper.     *)
(*                                                                         *)
(* Strings of the program are TLA+ strings (TLC evaluates Len, SubSeq and  *)
(* \o on them); JavaScript's zero-based half-open slices are translated to *)
(* SubSeq.  Embedding vectors are sequences of integers and similarities   *)
(* are compared exactly (as rationals under a square root), so floating    *)
(* point rounding is outside the model.                                    *)
(***************************************************************************)
EXTENDS Integers, Sequences, FiniteSets, TLC

\* ------------------------------------------------------------------ bounds

\* Number of document ids generateUUID may hand out in one behaviour.
MaxDocs == 2
\* Number of embedding-record ids generateUUID may hand out in one behaviour.
MaxEmbIds == 3
\* Number of chat-message ids generateUUID may hand out in one behaviour.
MaxMsgs == 2
\* Number of milliseconds Date.now() may advance in one behaviour.
MaxClock == 1

\* ------------------------------------------------------- program constants

\* processStoredDocument: chunkText(textContent, 1000, 200, isCSV)
ChunkSize == 1000
ChunkOverlap == 200
\* processStoredDocument: const batchSize = 90
StoredBatchSize == 90
\* processDocument: const batchSize = 96
LegacyBatchSize == 96

\* ------------------------------------------------------------ text helpers

Min(a, b) == IF a <= b THEN a ELSE b
Max(a, b) == IF a >= b THEN a ELSE b

\* s[i] of JavaScript, i zero-based.
CharAt(s, i) == SubSeq(s, i + 1, i + 1)

IsWhitespace(c) == c \in {" ", "\n", "\t", "\r"}

\* String.prototype.slice(start, end): a negative index counts from the end of the
\* string, and both indices are clamped to 0..length.
SliceIndex(s, k) == IF k < 0 THEN Max(Len(s) + k, 0) ELSE Min(k, Len(s))

Slice(s, start, end) ==
  LET b == SliceIndex(s, start)
      e == SliceIndex(s, end)
  IN IF b >= e THEN "" ELSE SubSeq(s, b + 1, e)

RECURSIVE TrimStartIndex(_, _)
TrimStartIndex(s, i) ==
  IF i < Len(s) /\ IsWhitespace(CharAt(s, i)) THEN TrimStartIndex(s, i + 1) ELSE i

RECURSIVE TrimEndIndex(_, _)
TrimEndIndex(s, j) ==
  IF j > 0 /\ IsWhitespace(CharAt(s, j - 1)) THEN TrimEndIndex(s, j - 1) ELSE j

\* String.prototype.trim()
Trim(s) == Slice(s, TrimStartIndex(s, 0), TrimEndIndex(s, Len(s)))

\* JavaScript truthiness of a string: "" is falsy, every other string truthy.
Truthy(s) == s # ""

\* String.prototype.repeat(n), by halving.
RECURSIVE Repeat(_, _)
Repeat(s, n) ==
  IF n = 0 THEN ""
  ELSE LET half == Repeat(s, n \div 2)
       IN IF n % 2 = 0 THEN half \o half ELSE half \o half \o s

SetMin(S) == CHOOSE x \in S : \A y \in S : x <= y

\* String.prototype.startsWith / includes
StartsWith(s, prefix) == Len(s) >= Len(prefix) /\ Slice(s, 0, Len(prefix)) = prefix
EndsWith(s, suffix) == Len(s) >= Len(suffix) /\ Slice(s, Len(s) - Len(suffix), Len(s)) = suffix
Includes(s, part) == \E i \in 0..Len(s) : i + Len(part) <= Len(s) /\ Slice(s, i, i + Len(part)) = part

\* String.prototype.split(sep) for a one-character separator.
RECURSIVE SplitFrom(_, _, _)
SplitFrom(s, seps, start) ==
  LET later == {p \in seps : p >= start}
  IN IF later = {} THEN << (IF start >= Len(s) THEN "" ELSE Slice(s, start, Len(s))) >>
     ELSE << (IF SetMin(later) = start THEN "" ELSE Slice(s, start, SetMin(later))) >>
          \o SplitFrom(s, seps, SetMin(later) + 1)

Split(s, sep) == SplitFrom(s, {i \in 0..(Len(s) - 1) : CharAt(s, i) = sep}, 0)

\* Array.prototype.join(sep), by halves.
RECURSIVE Join(_, _)
Join(parts, sep) ==
  IF Len(parts) = 0 THEN ""
  ELSE IF Len(parts) = 1 THEN parts[1]
  ELSE Join(SubSeq(parts, 1, Len(parts) \div 2), sep) \o sep
       \o Join(SubSeq(parts, Len(parts) \div 2 + 1, Len(parts)), sep)

NonEmpty(s) == Len(s) > 0

\* ---------------------------------------------------------------- chunkText

\* One turn of the while loop of chunkText (sliding window, isStructured = false);
\* done says that the loop has been left.
chunkTurn(text, chunkSize, overlap, st) ==
  IF ~(st.start < Len(text)) THEN [st EXCEPT !.done = TRUE]
  ELSE
    LET end == Min(st.start + chunkSize, Len(text))
        chunk == Trim(Slice(text, st.start, end))
        pushed == IF Len(chunk) > 0 THEN Append(st.chunks, chunk) ELSE st.chunks
    IN IF end >= Len(text) THEN [start |-> st.start, chunks |-> pushed, done |-> TRUE]
       ELSE
         LET moved == end - overlap
             next == IF moved <= Len(pushed) * (chunkSize - overlap)
                     THEN end - Min(overlap, chunkSize \div 2)
                     ELSE moved
         IN [start |-> next, chunks |-> pushed, done |-> FALSE]

\* At most n turns of the loop, one after the other.
RECURSIVE chunkTurns(_, _, _, _, _)
chunkTurns(text, chunkSize, overlap, st, n) ==
  IF st.done \/ n = 0 THEN st
  ELSE IF n = 1 THEN chunkTurn(text, chunkSize, overlap, st)
  ELSE chunkTurns(text, chunkSize, overlap,
                  chunkTurns(text, chunkSize, overlap, st, n \div 2), n - n \div 2)

\* The turns of the loop until it is left.
RECURSIVE chunkRun(_, _, _, _, _)
chunkRun(text, chunkSize, overlap, st, n) ==
  LET reached == chunkTurns(text, chunkSize, overlap, st, n)
  IN IF reached.done THEN reached ELSE chunkRun(text, chunkSize, overlap, reached, 2 * n)

\* The while loop of chunkText, entered with start and chunks.
chunkLoop(text, chunkSize, overlap, start, chunks) ==
  chunkRun(text, chunkSize, overlap, [start |-> start, chunks |-> chunks, done |-> FALSE], 1).chunks

\* chunkStructuredText: the header section, everything before "---" or the first "Row ".
RECURSIVE headerEnd(_, _)
headerEnd(lines, i) ==
  IF i < Len(lines) /\ ~(Includes(lines[i + 1], "---") \/ StartsWith(lines[i + 1], "Row "))
  THEN headerEnd(lines, i + 1)
  ELSE i

\* chunkStructuredText: the row loop; i is the zero-based line index.
RECURSIVE rowLoop(_, _, _, _, _, _, _)
rowLoop(lines, header, maxChunkSize, i, currentChunk, currentSize, chunks) ==
  IF ~(i < Len(lines))
  THEN IF Len(currentChunk) > 0
       THEN Append(chunks, header \o "\n" \o Join(currentChunk, "\n"))
       ELSE chunks
  ELSE
    LET line == lines[i + 1]
        isRowStart == StartsWith(line, "Row ")
        flush == isRowStart /\ Len(currentChunk) > 0
                 /\ currentSize + Len(line) + Len(header) > maxChunkSize
    IN rowLoop(lines, header, maxChunkSize, i + 1,
               Append(IF flush THEN << >> ELSE currentChunk, line),
               (IF flush THEN 0 ELSE currentSize) + Len(line) + 1,
               IF flush THEN Append(chunks, header \o "\n" \o Join(currentChunk, "\n"))
               ELSE chunks)

chunkStructuredText(text, maxChunkSize) ==
  LET lines == Split(text, "\n")
      h == headerEnd(lines, 0)
      header == Join(SubSeq(lines, 1, h), "\n")
      first == IF h < Len(lines) /\ Includes(lines[h + 1], "---") THEN h + 1 ELSE h
      chunks == rowLoop(lines, header, maxChunkSize, first, << >>, 0, << >>)
  IN IF Len(chunks) > 0 THEN chunks ELSE << text >>

chunkText(text, chunkSize, overlap, isStructured) ==
  IF isStructured THEN chunkStructuredText(text, chunkSize)
  ELSE chunkLoop(text, chunkSize, overlap, 0, << >>)

\* ----------------------------------------------------------------- parseCSV

\* parseCSVLine: the character loop (quotes toggle, "" inside quotes is a quote,
\* a comma outside quotes ends a field).
RECURSIVE parseCSVLineLoop(_, _, _, _, _)
parseCSVLineLoop(line, i, current, inQuotes, result) ==
  IF ~(i < Len(line)) THEN Append(result, Trim(current))
  ELSE
    LET char == CharAt(line, i)
    IN IF char = "\""
       THEN IF inQuotes /\ i + 1 < Len(line) /\ CharAt(line, i + 1) = "\""
            THEN parseCSVLineLoop(line, i + 2, current \o "\"", inQuotes, result)
            ELSE parseCSVLineLoop(line, i + 1, current, ~inQuotes, result)
       ELSE IF char = "," /\ ~inQuotes
            THEN parseCSVLineLoop(line, i + 1, "", inQuotes, Append(result, Trim(current)))
            ELSE parseCSVLineLoop(line, i + 1, current \o char, inQuotes, result)

parseCSVLine(line) == parseCSVLineLoop(line, 0, "", FALSE, << >>)

\* values[idx]?.trim() || 'N/A'
cellValue(values, idx) ==
  IF idx <= Len(values) /\ Truthy(Trim(values[idx])) THEN Trim(values[idx]) ELSE "N/A"

\* The row loop of parseCSV; i is the index into lines (lines[0] is the header line).
RECURSIVE csvRows(_, _, _, _)
csvRows(lines, headers, i, structuredText) ==
  IF ~(i < Len(lines)) THEN structuredText
  ELSE
    LET values == parseCSVLine(lines[i + 1])
        rowDescription ==
          Join([h \in 1..Len(headers) |-> headers[h] \o ": " \o cellValue(values, h)], ", ")
        keyValueFormat ==
          Join([h \in 1..Len(headers) |-> "  - " \o headers[h] \o " is " \o cellValue(values, h)],
               "\n")
    IN IF Len(values) # Len(headers)
       THEN csvRows(lines, headers, i + 1, structuredText)
       ELSE csvRows(lines, headers, i + 1,
                    structuredText \o << "Row " \o ToString(i) \o ": " \o rowDescription,
                                        keyValueFormat, "" >>)

\* parseCSV(file): [ok |-> FALSE] stands for the thrown "CSV file is empty".
parseCSV(name, text) ==
  LET raw == Split(text, "\n")
      lines == SelectSeq([k \in 1..Len(raw) |-> Trim(raw[k])], NonEmpty)
  IN IF Len(lines) = 0 THEN [ok |-> FALSE, text |-> "", error |-> "CSV file is empty"]
     ELSE LET headers == parseCSVLine(lines[1])
              top == << "CSV File: " \o name,
                        "Columns: " \o Join(headers, ", "),
                        "Total Rows: " \o ToString(Len(lines) - 1),
                        "---" >>
          IN [ok |-> TRUE, text |-> Join(csvRows(lines, headers, 1, top), "\n"), error |-> ""]

\* -------------------------------------------------------------- extractText

\* A File: name, type (the declared media type), size and content.  The content
\* stands for the bytes: text is file.text() (for a word-processor file, the raw
\* text mammoth extracts), pages the per-page text pdf.js yields, pretty the
\* JSON.stringify(JSON.parse(text), null, 2) form, readable whether the format
\* library accepts the bytes.
MDocx == "application/vnd.openxmlformats-officedocument.wordprocessingml.document"

RECURSIVE pdfFullText(_, _)
pdfFullText(pages, i) ==
  IF i > Len(pages) THEN "" ELSE pages[i] \o "\n\n" \o pdfFullText(pages, i + 1)

\* Faulty variant: every file is read as plain text.
extractTextAsText(name, mimeType, content) == [ok |-> TRUE, text |-> content.text, error |-> ""]

extractText(name, mimeType, content) ==
  IF StartsWith(mimeType, "text/") /\ ~Includes(mimeType, "csv")
  THEN [ok |-> TRUE, text |-> content.text, error |-> ""]
  ELSE IF mimeType = "text/csv" \/ EndsWith(name, ".csv")
  THEN LET parsed == parseCSV(name, content.text)
       IN IF parsed.ok THEN parsed
          ELSE [ok |-> FALSE, text |-> "", error |-> "Failed to parse CSV: " \o parsed.error]
  ELSE IF mimeType = "application/pdf"
  THEN IF ~content.readable
       THEN [ok |-> FALSE, text |-> "", error |-> "Failed to extract text from PDF"]
       ELSE IF ~Truthy(Trim(pdfFullText(content.pages, 1)))
       THEN [ok |-> FALSE, text |-> "",
             error |-> "Failed to extract text from PDF: No text could be extracted from PDF"]
       ELSE [ok |-> TRUE, text |-> Trim(pdfFullText(content.pages, 1)), error |-> ""]
  ELSE IF mimeType = MDocx \/ mimeType = "application/msword"
  THEN IF ~content.readable
       THEN [ok |-> FALSE, text |-> "", error |-> "Failed to extract text from DOCX"]
       ELSE [ok |-> TRUE, text |-> content.text, error |-> ""]
  ELSE IF mimeType = "application/json"
  THEN IF ~content.readable
       THEN [ok |-> FALSE, text |-> "", error |-> "SyntaxError"]
       ELSE [ok |-> TRUE, text |-> content.pretty, error |-> ""]
  ELSE IF mimeType = "text/markdown" \/ EndsWith(name, ".md")
  THEN [ok |-> TRUE, text |-> content.text, error |-> ""]
  ELSE [ok |-> FALSE, text |-> "", error |-> "Unsupported file type: " \o mimeType]

\* --------------------------------------------------------- cosine similarity

\* A similarity is kept exact: [num, den2] stands for num / sqrt(den2), den2 > 0.
Zero == [num |-> 0, den2 |-> 1]

RECURSIVE Dot(_, _, _)
Dot(a, b, k) == IF k > Len(a) THEN 0 ELSE a[k] * b[k] + Dot(a, b, k + 1)

\* dotProduct / (sqrt(normA) * sqrt(normB)), and 0 when the denominator is 0.
Cosine(a, b) ==
  IF Dot(a, a, 1) * Dot(b, b, 1) = 0 THEN Zero
  ELSE [num |-> Dot(a, b, 1), den2 |-> Dot(a, a, 1) * Dot(b, b, 1)]

\* processor.ts cosineSimilarity: vectors of different lengths score 0.
cosineSimilarity(vecA, vecB) == IF Len(vecA) # Len(vecB) THEN Zero ELSE Cosine(vecA, vecB)

\* similarity >= p / q, for q > 0.
SimGE(sim, p, q) ==
  IF sim.num >= 0
  THEN p <= 0 \/ sim.num * sim.num * q * q >= p * p * sim.den2
  ELSE p < 0 /\ sim.num * sim.num * q * q <= p * p * sim.den2

\* s1 > s2
SimGT(s1, s2) ==
  IF s1.num >= 0
  THEN s2.num < 0 \/ s1.num * s1.num * s2.den2 > s2.num * s2.num * s1.den2
  ELSE s2.num < 0 /\ s1.num * s1.num * s2.den2 < s2.num * s2.num * s1.den2

\* -------------------------------------------------------- mergeSimilarChunks

\* [...new Set(seq)]: the first occurrence of each element, in order.
RECURSIVE Unique(_)
Unique(seq) ==
  IF seq = << >> THEN << >>
  ELSE LET init == Unique(SubSeq(seq, 1, Len(seq) - 1))
           last == seq[Len(seq)]
       IN IF \E k \in 1..Len(init) : init[k] = last THEN init ELSE Append(init, last)

\* text.split(/[.!?]+/).map(s => s.trim()).filter(s => s.length > 0)
sentences(text) ==
  LET parts == SplitFrom(text, {i \in 0..(Len(text) - 1) : CharAt(text, i) \in {".", "!", "?"}}, 0)
  IN SelectSeq([k \in 1..Len(parts) |-> Trim(parts[k])], NonEmpty)

\* Merge text (combine unique sentences); members are one-based indices.
mergedText(chunks, members) ==
  Join(Unique(sentences(Join([k \in 1..Len(members) |-> chunks[members[k]]], " "))), ". ") \o "."

\* Average embeddings: per-dimension sum of emb[k] / n over the cluster; the sum
\* over the members first..last, by halves.
RECURSIVE sumAt(_, _, _, _, _)
sumAt(embeddings, members, k, first, last) ==
  IF first > last THEN 0
  ELSE IF first = last
  THEN IF k <= Len(embeddings[members[first]]) THEN embeddings[members[first]][k] ELSE 0
  ELSE sumAt(embeddings, members, k, first, (first + last) \div 2)
       + sumAt(embeddings, members, k, (first + last) \div 2 + 1, last)

avgEmbedding(embeddings, members) ==
  [k \in 1..Len(embeddings[members[1]]) |->
     sumAt(embeddings, members, k, 1, Len(members)) \div Len(members)]

\* Faulty variant: a similarity equal to the threshold does not merge.
similarToAbove(embeddings, i, j, processed, p, q) ==
  SelectSeq([k \in 1..(Len(embeddings) - j + 1) |-> j + k - 1],
            LAMBDA x : x \notin processed
                       /\ SimGT(cosineSimilarity(embeddings[i], embeddings[x]),
                                [num |-> p, den2 |-> q * q]))

\* The indices from j on, not yet processed, similar to the seed i (in increasing
\* order).
similarTo(embeddings, i, j, processed, p, q) ==
  SelectSeq([k \in 1..(Len(embeddings) - j + 1) |-> j + k - 1],
            LAMBDA x : x \notin processed
                       /\ SimGE(cosineSimilarity(embeddings[i], embeddings[x]), p, q))

\* One turn of the outer loop of mergeSimilarChunks; st.i is one-based.
mergeTurn(chunks, embeddings, p, q, st) ==
  IF st.i \in st.processed THEN [st EXCEPT !.i = @ + 1]
  ELSE
    LET similarIndices == << st.i >> \o similarTo(embeddings, st.i, st.i + 1, st.processed, p, q)
    IN IF Len(similarIndices) > 1
       THEN [i |-> st.i + 1,
             processed |-> st.processed \cup {similarIndices[k] : k \in 1..Len(similarIndices)},
             merged |-> Append(st.merged, mergedText(chunks, similarIndices)),
             mergedEmbeddings |-> Append(st.mergedEmbeddings,
                                         avgEmbedding(embeddings, similarIndices)),
             clusters |-> Append(st.clusters, similarIndices)]
       ELSE [i |-> st.i + 1, processed |-> st.processed \cup {st.i},
             merged |-> Append(st.merged, chunks[st.i]),
             mergedEmbeddings |-> Append(st.mergedEmbeddings, embeddings[st.i]),
             clusters |-> Append(st.clusters, similarIndices)]

\* At most n turns of the loop (while i < chunks.length), one after the other.
RECURSIVE mergeTurns(_, _, _, _, _, _)
mergeTurns(chunks, embeddings, p, q, st, n) ==
  IF st.i > Len(chunks) \/ n = 0 THEN st
  ELSE IF n = 1 THEN mergeTurn(chunks, embeddings, p, q, st)
  ELSE mergeTurns(chunks, embeddings, p, q,
                  mergeTurns(chunks, embeddings, p, q, st, n \div 2), n - n \div 2)

\* The outer loop of mergeSimilarChunks, entered at i.
mergeLoop(chunks, embeddings, p, q, i, processed, merged, mergedEmbeddings) ==
  LET st == mergeTurns(chunks, embeddings, p, q,
                       [i |-> i, processed |-> processed, merged |-> merged,
                        mergedEmbeddings |-> mergedEmbeddings, clusters |-> << >>],
                       Max(Len(chunks) - i + 1, 0))
  IN [ok |-> TRUE, chunks |-> st.merged, embeddings |-> st.mergedEmbeddings,
      clusters |-> st.clusters]

\* similarityThreshold is p / q.  [ok |-> FALSE] stands for the thrown
\* "Chunks and embeddings length mismatch".
mergeSimilarChunks(chunks, embeddings, p, q) ==
  IF Len(chunks) # Len(embeddings)
  THEN [ok |-> FALSE, chunks |-> << >>, embeddings |-> << >>, clusters |-> << >>]
  ELSE mergeLoop(chunks, embeddings, p, q, 1, {}, << >>, << >>)

\* ------------------------------------------------------------------ inputs

\* session.user.id values: the owners that sign in to this browser, one at a time,
\* and so share its IndexedDB database.
Users == {"A", "B"}

NoContent == [text |-> "", pages |-> << >>, pretty |-> "", readable |-> FALSE]
PlainText(t) == [text |-> t, pages |-> << >>, pretty |-> "", readable |-> TRUE]

\* Two windows of the sliding chunker whose embeddings differ.
FileTwo == [name |-> "two.txt", type |-> "text/plain", size |-> 1001,
            content |-> PlainText(Repeat("a", 800) \o Repeat("b", 201))]
\* Two windows with the same embedding: the merger collapses them into one chunk.
FileSame == [name |-> "same.txt", type |-> "text/plain", size |-> 1001,
             content |-> PlainText(Repeat("a", 1001))]
FileEmpty == [name |-> "empty.txt", type |-> "text/plain", size |-> 0,
              content |-> PlainText("")]
FileBlank == [name |-> "blank.txt", type |-> "text/plain", size |-> 3,
              content |-> PlainText("   ")]
FilePng == [name |-> "scan.png", type |-> "image/png", size |-> 4,
            content |-> PlainText("\t\n\r\n")]

Files == {FileTwo, FileSame, FileEmpty, FileBlank, FilePng}

\* A markdown file for which the browser knows no media type, and a web page.
FileNotes == [name |-> "notes.md", type |-> "", size |-> 6,
              content |-> PlainText("a note")]
FileHtml == [name |-> "page.html", type |-> "text/html", size |-> 8,
             content |-> PlainText("<p>b</p>")]

\* A delimited file as browsers report it: as text/csv, as a spreadsheet, or as
\* plain text.
FileCsv == [name |-> "data.csv", type |-> "text/csv", size |-> 6,
            content |-> PlainText("a\n1\n2\n")]
FileSheet == [name |-> "data.csv", type |-> "application/vnd.ms-excel", size |-> 6,
              content |-> PlainText("a\n1\n2\n")]
FileCsvAsText == [name |-> "data.csv", type |-> "text/plain", size |-> 6,
                  content |-> PlainText("a\n1\n2\n")]

\* A text of blocks of 800 characters, block k being a word that starts with a, b
\* or c (in a pattern of period 7, which no batch size divides) and holds k.  The
\* window of the sliding chunker advances by one block, so the text of n blocks
\* yields n chunks, the k-th starting with the k-th word.
BlockWord(k) ==
  (IF k % 7 \in {0, 3, 4} THEN "a" ELSE IF k % 7 \in {1, 5} THEN "b" ELSE "c") \o ToString(k)

Block(k) == BlockWord(k) \o Repeat("x", 800 - Len(BlockWord(k)))

RECURSIVE BlockText(_, _)
BlockText(first, last) ==
  IF first > last THEN ""
  ELSE IF first = last THEN Block(first)
  ELSE BlockText(first, (first + last) \div 2) \o BlockText((first + last) \div 2 + 1, last)

\* Three batches of processStoredDocument (90, 90, 1) and of processDocument
\* (96, 96, 1).
FileLong == [name |-> "long.txt", type |-> "text/plain", size |-> 144800,
             content |-> PlainText(BlockText(1, 181))]
FileLonger == [name |-> "longer.txt", type |-> "text/plain", size |-> 154400,
               content |-> PlainText(BlockText(1, 193))]

\* The embedding service (embed-english-v3.0) is outside the program: it is a
\* fixed function of the input text, here of its first character.  Components are
\* multiples of 12, so the per-dimension mean of up to four vectors is exact.
ModelVec(text) ==
  IF StartsWith(text, "a") THEN << 12, 0 >>
  ELSE IF StartsWith(text, "b") THEN << 0, 12 >>
  ELSE << 12, 12 >>

\* What one cohereClient.embed(batch) call can answer: one vector per text, fewer
\* vectors than texts, or a thrown "Cohere embed error".
EmbedOutcomes == {"ok", "short", "error"}

embed(batch, outcome) ==
  LET all == [k \in 1..Len(batch) |-> ModelVec(batch[k])]
  IN IF outcome = "short" THEN SubSeq(all, 1, Len(all) - 1) ELSE all

\* ------------------------------------------------------------------- state

VARIABLES
  session,       \* session.user.id of the signed-in user
  cohereClient,  \* client.ts: cohereClient !== null
  documents,     \* object store "documents": id -> StoredDocument
  embeddings,    \* object store "embeddings": id -> StoredEmbedding
  uuids,         \* the ids generateUUID has handed out, per store (a count, or the set)
  job,           \* the processStoredDocument / processDocument call in progress
  pending,       \* addEmbedding requests issued by embeddingPromises, not yet settled
  chatHistory,   \* object store "chat_history": id -> ChatMessage
  queryCall,     \* the MaintenanceAgent.processQuery call in progress
  now,           \* Date.now()
  appended,      \* history: the ids of the chat messages added, in the order added
  call           \* a call of one of processor.ts's functions on its own: arguments, locals, result

agentVars == << chatHistory, queryCall, now, appended >>

vars == << session, cohereClient, documents, embeddings, uuids, job, pending,
           chatHistory, queryCall, now, appended, call >>

NoDocument == [id |-> 0]

NoCall == [fn |-> "none"]

IdleJob == [op |-> "none", pc |-> "idle", documentId |-> 0, userId |-> "",
            document |-> NoDocument, chunks |-> << >>, allEmbeddings |-> << >>,
            i |-> 0, calls |-> 0, error |-> "", sent |-> << >>, reports |-> << >>]

\* processQuery's locals: the query text, the agent's userId, the query embedding,
\* the retrieved chunk texts and sources, the answer, the context sent to chat,
\* the message being written, the ids of the messages the call has added, and
\* what the caller sees.
NoMessage == [id |-> 0]

IdleQuery == [pc |-> "idle", userId |-> "", text |-> "", queryEmbedding |-> << >>,
              documents |-> << >>, sources |-> << >>, sourceNames |-> << >>,
              response |-> "", embedCalls |-> 0, chatCalls |-> 0,
              context |-> << >>, writing |-> NoMessage, stored |-> << >>,
              error |-> ""]

Init ==
  /\ session \in Users
  /\ cohereClient = FALSE
  /\ documents = << >>
  /\ embeddings = << >>
  /\ uuids = [doc |-> 0, emb |-> 0, msg |-> {}]
  /\ job = IdleJob
  /\ pending = {}
  /\ chatHistory = << >>
  /\ queryCall = IdleQuery
  /\ now = 0
  /\ appended = << >>
  /\ call = NoCall

\* ------------------------------------------------------ IndexedDB wrapper

\* updateItem: store.put(item) replaces the record with that key or creates it.
updateItem(store, item) == (item.id :> item) @@ store

\* addItem: store.add(item); the keys are fresh uuids.
addItem(store, item) == store @@ (item.id :> item)

\* deleteItem, for a set of keys.
deleteItems(store, ids) == [k \in DOMAIN store \ ids |-> store[k]]

\* getItemsByIndex(storeName, "userId" | "documentId", value): the matching
\* records in key order.
RECURSIVE InKeyOrder(_, _)
InKeyOrder(store, keys) ==
  IF keys = {} THEN << >>
  ELSE << store[SetMin(keys)] >> \o InKeyOrder(store, keys \ {SetMin(keys)})

\* Faulty variant: the whole store is read (getAllItems) instead of the userId index.
getItemsAnyUser(store, userId) == InKeyOrder(store, DOMAIN store)

getItemsByUserId(store, userId) ==
  InKeyOrder(store, {k \in DOMAIN store : store[k].userId = userId})

getEmbeddingsByDocumentId(documentId) ==
  InKeyOrder(embeddings, {k \in DOMAIN embeddings : embeddings[k].documentId = documentId})

\* getItem
getItem(store, id) == IF id \in DOMAIN store THEN store[id] ELSE NoDocument

\* ----------------------------------------------------- session and API key

SignIn(userId) ==
  /\ userId # session
  /\ session' = userId
  /\ UNCHANGED << cohereClient, documents, embeddings, uuids, job, pending >>
  /\ UNCHANGED << agentVars, call >>

setCohereApiKey ==
  /\ cohereClient' = TRUE
  /\ UNCHANGED << session, documents, embeddings, uuids, job, pending >>
  /\ UNCHANGED << agentVars, call >>

clearCohereApiKey ==
  /\ cohereClient' = FALSE
  /\ UNCHANGED << session, documents, embeddings, uuids, job, pending >>
  /\ UNCHANGED << agentVars, call >>

\* ---------------------------------------------------------- uploadDocument

uploadedDocument(documentId, file, userId) ==
  [id |-> documentId, fileName |-> file.name, mimeType |-> file.type, size |-> file.size,
   textContent |-> "", userId |-> userId, processed |-> FALSE, fileData |-> file.content]

uploadDocument(file) ==
  /\ uuids.doc < MaxDocs
  /\ uuids' = [uuids EXCEPT !.doc = @ + 1]
  /\ documents' = addItem(documents, uploadedDocument(uuids.doc + 1, file, session))
  /\ UNCHANGED << session, cohereClient, embeddings, job, pending >>
  /\ UNCHANGED << agentVars, call >>

\* ---------------------------------------------------------- deleteDocument

\* Faulty variant: the document is deleted without its embedding records.
deleteDocumentOnly(documentId) ==
  /\ documents' = deleteItems(documents, {documentId})
  /\ UNCHANGED << session, cohereClient, embeddings, uuids, job, pending >>
  /\ UNCHANGED << agentVars, call >>

deleteDocument(documentId) ==
  /\ embeddings' = deleteItems(embeddings,
                               {k \in DOMAIN embeddings : embeddings[k].documentId = documentId})
  /\ documents' = deleteItems(documents, {documentId})
  /\ UNCHANGED << session, cohereClient, uuids, job, pending >>
  /\ UNCHANGED << agentVars, call >>

\* --------------------------------------------------- processStoredDocument

\* onProgress({stage, progress}): progress is num / den.
Report(stage, num, den) == [stage |-> stage, num |-> num, den |-> den]

\* What the observer has been told stays known after the call has ended.
WithReports(j, reports) == [j EXCEPT !.reports = reports]

\* Faulty variant: the share of the chunks still to embed.
progressPercentLeft(base, i, n) == Report("embedding", base * n + 40 * (n - i), n)

\* progressPercent = base + (i / chunks.length) * 40
progressPercent(base, i, n) == Report("embedding", base * n + 40 * i, n)

Running == job.pc \notin {"idle", "done", "failed"}

\* The call has thrown: the caller sees the error, the locals are gone.
Thrown(op, calls, error) ==
  [IdleJob EXCEPT !.op = op, !.pc = "failed", !.calls = calls, !.error = error]

\* The call has returned its ProcessingResult.
Returned(op, documentId, calls) ==
  [IdleJob EXCEPT !.op = op, !.pc = "done", !.documentId = documentId, !.calls = calls]

isCSV(document) == document.mimeType = "text/csv" \/ EndsWith(document.fileName, ".csv")

\* Stage 2 of processStoredDocument, reached with the text in hand: throw on a
\* falsy text, else chunk; with no chunk the embedding loop and the map over
\* mergedChunks are empty and the next await is the final updateDocument.
afterExtract(documentId, userId, document, reports) ==
  IF ~Truthy(document.textContent)
  THEN WithReports(Thrown("processStoredDocument", 0,
                          "Failed to extract text from document"), reports)
  ELSE LET chunks == chunkText(document.textContent, ChunkSize, ChunkOverlap, isCSV(document))
           told == reports \o << Report("chunking", 20, 1), Report("embedding", 30, 1) >>
       IN [IdleJob EXCEPT !.op = "processStoredDocument",
                          !.pc = IF Len(chunks) = 0 THEN "mark" ELSE "embed",
                          !.documentId = documentId, !.userId = userId,
                          !.document = document, !.chunks = chunks,
                          !.reports = IF Len(chunks) = 0
                                      THEN told \o << Report("embedding", 70, 1),
                                                      Report("storing", 85, 1) >>
                                      ELSE told]

\* The chunks a document yields, which bounds the ids its processing draws.
chunksOf(name, mimeType, content, chunkSize, overlap, structured) ==
  LET r == extractText(name, mimeType, content)
  IN IF r.ok /\ Truthy(r.text) THEN chunkText(r.text, chunkSize, overlap, structured) ELSE << >>

\* What processStoredDocument does with a document it accepts.
acceptStored(documentId, userId, document) ==
  IF ~Truthy(document.textContent) /\ document.fileData # NoContent
  THEN [IdleJob EXCEPT !.op = "processStoredDocument", !.pc = "extract",
                       !.documentId = documentId, !.userId = userId,
                       !.document = document,
                       !.reports = << Report("extracting", 10, 1) >>]
  ELSE afterExtract(documentId, userId, document, << >>)

\* Faulty variant: the ownership test is missing.
startStoredAnyOwner(documentId, userId) ==
  LET document == getItem(documents, documentId)
  IN IF ~cohereClient
     THEN Thrown("processStoredDocument", 0,
                 "Cohere API key not set. Please provide your API key first.")
     ELSE IF document = NoDocument
     THEN Thrown("processStoredDocument", 0, "Document not found")
     ELSE IF document.processed
     THEN Thrown("processStoredDocument", 0, "Document already processed")
     ELSE acceptStored(documentId, userId, document)

\* Faulty variant: the processed test is missing.
startStoredAgain(documentId, userId) ==
  LET document == getItem(documents, documentId)
  IN IF ~cohereClient
     THEN Thrown("processStoredDocument", 0,
                 "Cohere API key not set. Please provide your API key first.")
     ELSE IF document = NoDocument
     THEN Thrown("processStoredDocument", 0, "Document not found")
     ELSE IF document.userId # userId
     THEN Thrown("processStoredDocument", 0,
                 "Unauthorized: Document belongs to another user")
     ELSE acceptStored(documentId, userId, document)

\* processStoredDocument(documentId, session.user.id) up to its first store read.
startStored(documentId, userId) ==
  LET document == getItem(documents, documentId)
  IN IF ~cohereClient
     THEN Thrown("processStoredDocument", 0,
                 "Cohere API key not set. Please provide your API key first.")
     ELSE IF document = NoDocument
     THEN Thrown("processStoredDocument", 0, "Document not found")
     ELSE IF document.userId # userId
     THEN Thrown("processStoredDocument", 0,
                 "Unauthorized: Document belongs to another user")
     ELSE IF document.processed
     THEN Thrown("processStoredDocument", 0, "Document already processed")
     ELSE acceptStored(documentId, userId, document)

processStoredDocument(documentId) ==
  /\ ~Running
  /\ documentId \in 1..uuids.doc
  /\ documentId \in DOMAIN documents =>
       uuids.emb + Len(chunksOf(documents[documentId].fileName, documents[documentId].mimeType,
                                documents[documentId].fileData, ChunkSize, ChunkOverlap,
                                isCSV(documents[documentId]))) <= MaxEmbIds
  /\ job' = startStored(documentId, session)
  /\ UNCHANGED << session, cohereClient, documents, embeddings, uuids, pending >>
  /\ UNCHANGED << agentVars, call >>

\* Stage 1: extractText on the stored bytes, then updateDocument with the text.
extractStored ==
  /\ job.pc = "extract"
  /\ LET r == extractText(job.document.fileName, job.document.mimeType, job.document.fileData)
         document == [job.document EXCEPT !.textContent = r.text]
     IN IF ~r.ok
        THEN /\ job' = WithReports(Thrown(job.op, 0, r.error), job.reports)
             /\ UNCHANGED documents
        ELSE \/ /\ documents' = updateItem(documents, document)
                /\ job' = afterExtract(job.documentId, job.userId, document, job.reports)
             \/ /\ job' = WithReports(Thrown(job.op, 0, "put failed"), job.reports)
                /\ UNCHANGED documents
  /\ UNCHANGED << session, cohereClient, embeddings, uuids, pending >>
  /\ UNCHANGED << agentVars, call >>

\* The StoredEmbedding records built by the map over the (merged) chunks.
embeddingRecords(texts, vectors, documentId, userId, firstId) ==
  { [id |-> firstId + idx, documentId |-> documentId, chunkIndex |-> idx,
     text |-> texts[idx + 1],
     embedding |-> IF idx + 1 <= Len(vectors) THEN vectors[idx + 1] ELSE << >>,
     userId |-> userId] : idx \in 0..(Len(texts) - 1) }

mergeThreshold(document) == IF isCSV(document) THEN 95 ELSE 92

\* chunks.slice(i, i + batchSize)
batchOf(chunks, i, batchSize) == SubSeq(chunks, i + 1, Min(i + batchSize, Len(chunks)))

\* Faulty variant: a failed embedding call marks the document as processed.
embedStoredMarking(outcome) ==
  /\ job.op = "processStoredDocument"
  /\ job.pc = "embed"
  /\ LET batch == batchOf(job.chunks, job.i, StoredBatchSize)
         allEmbeddings == job.allEmbeddings \o embed(batch, outcome)
         merged == mergeSimilarChunks(job.chunks, allEmbeddings, mergeThreshold(job.document), 100)
         sent == Append(job.sent, batch)
         told == job.reports \o << progressPercent(30, job.i, Len(job.chunks)) >>
     IN IF outcome = "error"
        THEN /\ job' = WithReports(Thrown(job.op, job.calls + 1, "Cohere embed error"),
                                   job.reports)
             /\ documents' = updateItem(documents, [job.document EXCEPT !.processed = TRUE])
             /\ UNCHANGED << uuids, pending >>
        ELSE IF job.i + StoredBatchSize < Len(job.chunks)
        THEN /\ job' = [job EXCEPT !.allEmbeddings = allEmbeddings,
                                   !.i = @ + StoredBatchSize, !.calls = @ + 1,
                                   !.sent = sent, !.reports = told]
             /\ UNCHANGED << uuids, pending, documents >>
        ELSE IF ~merged.ok
        THEN /\ job' = WithReports(Thrown(job.op, job.calls + 1,
                                          "Chunks and embeddings length mismatch"),
                                   told \o << Report("embedding", 70, 1) >>)
             /\ UNCHANGED << uuids, pending, documents >>
        ELSE /\ uuids.emb + Len(merged.chunks) <= MaxEmbIds
             /\ job' = [job EXCEPT !.pc = "store", !.allEmbeddings = allEmbeddings,
                                   !.i = @ + StoredBatchSize, !.calls = @ + 1,
                                   !.sent = sent,
                                   !.reports = told \o << Report("embedding", 70, 1),
                                                          Report("storing", 85, 1) >>]
             /\ pending' = pending \cup
                   { [rec |-> r, live |-> TRUE] :
                     r \in embeddingRecords(merged.chunks, merged.embeddings, job.documentId,
                                            job.userId, uuids.emb + 1) }
             /\ uuids' = [uuids EXCEPT !.emb = @ + Len(merged.chunks)]
             /\ UNCHANGED documents
  /\ UNCHANGED << session, cohereClient, embeddings >>
  /\ UNCHANGED << agentVars, call >>

\* One turn of the embedding loop; after the last batch the code runs on, without
\* awaiting, through mergeSimilarChunks to the addEmbedding calls.
embedStored(outcome) ==
  /\ job.op = "processStoredDocument"
  /\ job.pc = "embed"
  /\ LET batch == batchOf(job.chunks, job.i, StoredBatchSize)
         allEmbeddings == job.allEmbeddings \o embed(batch, outcome)
         merged == mergeSimilarChunks(job.chunks, allEmbeddings, mergeThreshold(job.document), 100)
         sent == Append(job.sent, batch)
         told == job.reports \o << progressPercent(30, job.i, Len(job.chunks)) >>
     IN IF outcome = "error"
        THEN /\ job' = WithReports(Thrown(job.op, job.calls + 1, "Cohere embed error"),
                                   job.reports)
             /\ UNCHANGED << uuids, pending >>
        ELSE IF job.i + StoredBatchSize < Len(job.chunks)
        THEN /\ job' = [job EXCEPT !.allEmbeddings = allEmbeddings,
                                   !.i = @ + StoredBatchSize, !.calls = @ + 1,
                                   !.sent = sent, !.reports = told]
             /\ UNCHANGED << uuids, pending >>
        ELSE IF ~merged.ok
        THEN /\ job' = WithReports(Thrown(job.op, job.calls + 1,
                                          "Chunks and embeddings length mismatch"),
                                   told \o << Report("embedding", 70, 1) >>)
             /\ UNCHANGED << uuids, pending >>
        ELSE /\ uuids.emb + Len(merged.chunks) <= MaxEmbIds
             /\ job' = [job EXCEPT !.pc = "store", !.allEmbeddings = allEmbeddings,
                                   !.i = @ + StoredBatchSize, !.calls = @ + 1,
                                   !.sent = sent,
                                   !.reports = told \o << Report("embedding", 70, 1),
                                                          Report("storing", 85, 1) >>]
             /\ pending' = pending \cup
                   { [rec |-> r, live |-> TRUE] :
                     r \in embeddingRecords(merged.chunks, merged.embeddings, job.documentId,
                                            job.userId, uuids.emb + 1) }
             /\ uuids' = [uuids EXCEPT !.emb = @ + Len(merged.chunks)]
  /\ UNCHANGED << session, cohereClient, documents, embeddings >>
  /\ UNCHANGED << agentVars, call >>

\* One addEmbedding request settles with success.  Promise.all resolves when the
\* last request of the running call has.
addEmbeddingStored(w) ==
  /\ w \in pending
  /\ embeddings' = addItem(embeddings, w.rec)
  /\ pending' = pending \ {w}
  /\ job' = IF w.live /\ ~(\E o \in pending \ {w} : o.live)
            THEN IF job.op = "processStoredDocument"
                 THEN [job EXCEPT !.pc = "mark"]
                 ELSE WithReports(Returned(job.op, job.documentId, job.calls),
                                  job.reports \o << Report("complete", 100, 1) >>)
            ELSE job
  /\ UNCHANGED << session, cohereClient, documents, uuids >>
  /\ UNCHANGED << agentVars, call >>

\* One addEmbedding request is rejected (request.onerror).  Promise.all rejects at
\* once and the call throws; its other requests stay in flight and settle later.
addEmbeddingFailed(w) ==
  /\ w \in pending
  /\ pending' = IF w.live THEN { [o EXCEPT !.live = FALSE] : o \in pending \ {w} }
                ELSE pending \ {w}
  /\ job' = IF w.live
            THEN WithReports(Thrown(job.op, job.calls, "add failed"), job.reports)
            ELSE job
  /\ UNCHANGED << session, cohereClient, documents, embeddings, uuids >>
  /\ UNCHANGED << agentVars, call >>

\* Faulty variant: the call throws after the flag has been saved.
markProcessedThrowing ==
  /\ job.pc = "mark"
  /\ documents' = updateItem(documents, [job.document EXCEPT !.processed = TRUE])
  /\ job' = WithReports(Thrown(job.op, job.calls, "put failed"), job.reports)
  /\ UNCHANGED << session, cohereClient, embeddings, uuids, pending >>
  /\ UNCHANGED << agentVars, call >>

\* Mark document as processed: updateDocument puts the call's own copy of the record.
markProcessed ==
  /\ job.pc = "mark"
  /\ \/ /\ documents' = updateItem(documents, [job.document EXCEPT !.processed = TRUE])
        /\ job' = WithReports(Returned(job.op, job.documentId, job.calls),
                              job.reports \o << Report("complete", 100, 1) >>)
     \/ /\ job' = WithReports(Thrown(job.op, job.calls, "put failed"), job.reports)
        /\ UNCHANGED documents
  /\ UNCHANGED << session, cohereClient, embeddings, uuids, pending >>
  /\ UNCHANGED << agentVars, call >>

\* --------------------------------------------------- processDocument (legacy)

legacyDocument(documentId, file, userId, textContent) ==
  [id |-> documentId, fileName |-> file.name, mimeType |-> file.type, size |-> file.size,
   textContent |-> textContent, userId |-> userId, processed |-> TRUE,
   fileData |-> NoContent]

\* processDocument's locals once extractText has answered and chunkText has run.
legacyJob(documentId, file, userId, textContent) ==
  LET chunks == chunkText(textContent, ChunkSize, ChunkOverlap, FALSE)
      told == << Report("chunking", 10, 1), Report("chunking", 30, 1),
                 Report("embedding", 40, 1) >>
  IN [IdleJob EXCEPT
        !.op = "processDocument",
        !.pc = IF Len(chunks) = 0 THEN "addDocument" ELSE "embed",
        !.documentId = documentId, !.userId = userId,
        !.document = legacyDocument(documentId, file, userId, textContent),
        !.chunks = chunks,
        !.reports = IF Len(chunks) = 0 THEN told \o << Report("storing", 80, 1) >>
                    ELSE told]

\* processDocument(file, session.user.id) through extractText and chunkText(textContent).
processDocument(file) ==
  /\ ~Running
  /\ uuids.doc < MaxDocs
  /\ uuids.emb + Len(chunksOf(file.name, file.type, file.content, ChunkSize, ChunkOverlap,
                              FALSE)) <= MaxEmbIds
  /\ LET r == extractText(file.name, file.type, file.content)
     IN IF ~cohereClient
        THEN /\ job' = Thrown("processDocument", 0,
                              "Cohere API key not set. Please provide your API key first.")
             /\ UNCHANGED uuids
        ELSE /\ uuids' = [uuids EXCEPT !.doc = @ + 1]
             /\ job' = IF ~r.ok
                       THEN WithReports(Thrown("processDocument", 0, r.error),
                                        << Report("chunking", 10, 1) >>)
                       ELSE legacyJob(uuids.doc + 1, file, session, r.text)
  /\ UNCHANGED << session, cohereClient, documents, embeddings, pending >>
  /\ UNCHANGED << agentVars, call >>

embedLegacy(outcome) ==
  /\ job.op = "processDocument"
  /\ job.pc = "embed"
  /\ LET batch == batchOf(job.chunks, job.i, LegacyBatchSize)
         told == job.reports \o << progressPercent(40, job.i, Len(job.chunks)) >>
         last == ~(job.i + LegacyBatchSize < Len(job.chunks))
     IN job' = IF outcome = "error"
               THEN WithReports(Thrown(job.op, job.calls + 1, "Cohere embed error"),
                                job.reports)
               ELSE [job EXCEPT !.allEmbeddings = @ \o embed(batch, outcome),
                                !.i = @ + LegacyBatchSize, !.calls = @ + 1,
                                !.pc = IF last THEN "addDocument" ELSE "embed",
                                !.sent = Append(@, batch),
                                !.reports = IF last
                                            THEN told \o << Report("storing", 80, 1) >>
                                            ELSE told]
  /\ UNCHANGED << session, cohereClient, documents, embeddings, uuids, pending >>
  /\ UNCHANGED << agentVars, call >>

\* Stage 4: addDocument (processed: true), then the addEmbedding calls are issued.
addDocumentLegacy ==
  /\ job.pc = "addDocument"
  /\ \/ /\ uuids.emb + Len(job.chunks) <= MaxEmbIds
        /\ documents' = addItem(documents, job.document)
        /\ pending' = pending \cup
              { [rec |-> r, live |-> TRUE] :
                r \in embeddingRecords(job.chunks, job.allEmbeddings, job.documentId,
                                       job.userId, uuids.emb + 1) }
        /\ uuids' = [uuids EXCEPT !.emb = @ + Len(job.chunks)]
        /\ job' = IF Len(job.chunks) = 0
                  THEN WithReports(Returned(job.op, job.documentId, job.calls),
                                   job.reports \o << Report("complete", 100, 1) >>)
                  ELSE [job EXCEPT !.pc = "store"]
     \/ /\ job' = WithReports(Thrown(job.op, job.calls, "add failed"), job.reports)
        /\ UNCHANGED << documents, pending, uuids >>
  /\ UNCHANGED << session, cohereClient, embeddings >>
  /\ UNCHANGED << agentVars, call >>

\* ------------------------------------------------------------------- reads

\* Faulty variant: vectors of different lengths score 0, as in processor.ts.
storeCosineSimilarityLenient(a, b) == [thrown |-> FALSE, value |-> cosineSimilarity(a, b)]

\* vector-store cosineSimilarity: vectors of different lengths throw
\* "Vectors must have the same length".
storeCosineSimilarity(a, b) ==
  IF Len(a) # Len(b) THEN [thrown |-> TRUE, value |-> Zero]
  ELSE [thrown |-> FALSE, value |-> Cosine(a, b)]

\* Faulty variant: the filtered results are left in store order.
storeOrder(results) == results

\* results.sort((a, b) => b.similarity - a.similarity): stable, descending.
RECURSIVE sortBySimilarity(_)
sortBySimilarity(results) ==
  IF Len(results) <= 1 THEN results
  ELSE LET init == sortBySimilarity(SubSeq(results, 1, Len(results) - 1))
           last == results[Len(results)]
           before == SelectSeq(init, LAMBDA r : ~SimGT(last.similarity, r.similarity))
           after == SelectSeq(init, LAMBDA r : SimGT(last.similarity, r.similarity))
       IN before \o << last >> \o after

\* LocalVectorStore.search; similarityThreshold is p / q.  [ok |-> FALSE] stands
\* for the thrown "Vectors must have the same length".
search(queryEmbedding, userId, topK, p, q) ==
  LET embs == getItemsByUserId(embeddings, userId)
      scored == [k \in 1..Len(embs) |->
                   storeCosineSimilarity(queryEmbedding, embs[k].embedding)]
      results == [k \in 1..Len(embs) |->
                    [id |-> embs[k].id, documentId |-> embs[k].documentId,
                     text |-> embs[k].text, chunkIndex |-> embs[k].chunkIndex,
                     similarity |-> scored[k].value]]
      filtered == sortBySimilarity(SelectSeq(results, LAMBDA r : SimGE(r.similarity, p, q)))
  IN IF \E k \in 1..Len(embs) : scored[k].thrown
     THEN [ok |-> FALSE, results |-> << >>]
     ELSE [ok |-> TRUE, results |-> SubSeq(filtered, 1, Min(topK, Len(filtered)))]

\* LocalVectorStore.getStats
getStats(userId) ==
  LET embs == getItemsByUserId(embeddings, userId)
  IN [totalEmbeddings |-> Len(embs),
      uniqueDocuments |-> Cardinality({embs[k].documentId : k \in 1..Len(embs)})]

\* getStorageStats (sizes and counts)
RECURSIVE totalSize(_, _)
totalSize(docs, k) == IF k > Len(docs) THEN 0 ELSE docs[k].size + totalSize(docs, k + 1)

getStorageStats(userId) ==
  [totalDocuments |-> Len(getItemsByUserId(documents, userId)),
   totalChunks |-> Len(getItemsByUserId(embeddings, userId)),
   totalSize |-> totalSize(getItemsByUserId(documents, userId), 1)]

\* getUserDocuments: one summary per document of the user.
getUserDocuments(userId) ==
  LET docs == getItemsByUserId(documents, userId)
  IN [k \in 1..Len(docs) |->
        [id |-> docs[k].id, fileName |-> docs[k].fileName, size |-> docs[k].size,
         chunkCount |-> Len(getEmbeddingsByDocumentId(docs[k].id)),
         previewText |-> Slice(docs[k].textContent, 0, 200) \o "...",
         processed |-> docs[k].processed]]

\* chunks.sort((a, b) => a.chunkIndex - b.chunkIndex): stable, ascending.
RECURSIVE sortByChunkIndex(_)
sortByChunkIndex(chunks) ==
  IF Len(chunks) <= 1 THEN chunks
  ELSE LET init == sortByChunkIndex(SubSeq(chunks, 1, Len(chunks) - 1))
           last == chunks[Len(chunks)]
           before == SelectSeq(init, LAMBDA c : c.chunkIndex <= last.chunkIndex)
           after == SelectSeq(init, LAMBDA c : c.chunkIndex > last.chunkIndex)
       IN before \o << last >> \o after

\* getDocumentDetails(documentId): allDocs.find by id, and the chunks by the
\* documentId index; null when there is no such document.
getDocumentDetails(documentId) ==
  IF documentId \notin DOMAIN documents
  THEN [found |-> FALSE, document |-> NoDocument, chunks |-> << >>]
  ELSE [found |-> TRUE, document |-> documents[documentId],
        chunks |-> sortByChunkIndex(getEmbeddingsByDocumentId(documentId))]

\* MaintenanceAgent.getDocumentNames: the fileName of each id that getItem finds.
getDocumentNames(documentIds) ==
  LET found == SelectSeq(documentIds, LAMBDA id : getItem(documents, id) # NoDocument)
  IN [k \in 1..Len(found) |-> getItem(documents, found[k]).fileName]

\* exportDocument: the details, serialised; throws "Document not found" on null.
exportDocument(documentId) == getDocumentDetails(documentId)

\* exportAllDocuments: the details of each document of the user.
exportAllDocuments(userId) ==
  LET docs == getItemsByUserId(documents, userId)
  IN [k \in 1..Len(docs) |-> getDocumentDetails(docs[k].id)]

\* --------------------------------------------------------- MaintenanceAgent

\* config.topK ?? 15 and config.similarityThreshold ?? 0.35 (as 7 / 20).
DefaultTopK == 15
DefaultThreshold == << 7, 20 >>

\* The questions asked; their embeddings are ModelVec of the text.
QueryTexts == {"b?", "c?"}

\* What one cohereClient.chat call can answer: the text, or a thrown
\* "Cohere chat error".
ChatOutcomes == {"ok", "error"}

\* The generation service is outside the program: its answer is a fixed function
\* of whether evidence documents were supplied.
Answer(context) == IF context = << >> THEN "general answer" ELSE "grounded answer"

Asking == queryCall.pc \notin {"idle", "done", "failed"}

storeVars == << session, cohereClient, documents, embeddings, job, pending >>

\* processQuery has thrown: the caller sees the error.
QueryThrown(error) ==
  [IdleQuery EXCEPT !.pc = "failed", !.userId = queryCall.userId, !.text = queryCall.text,
                    !.embedCalls = queryCall.embedCalls, !.chatCalls = queryCall.chatCalls,
                    !.context = queryCall.context, !.stored = queryCall.stored,
                    !.error = error]

\* storeMessage up to its await: the ChatMessage it builds.  documentIds is
\* undefined for the question, which as [] names no document.
ChatMessage(id, userId, role, content, documentIds) ==
  [id |-> id, userId |-> userId, role |-> role, content |-> content,
   timestamp |-> now, documentIds |-> documentIds]

\* cohereClient.chat(query, contextDocuments): documents are put in the request
\* only when context.length > 0.
chatRequest(q, contextDocuments, sources, sourceNames) ==
  [q EXCEPT !.pc = "chat", !.documents = contextDocuments, !.sources = sources,
            !.sourceNames = sourceNames, !.chatCalls = @ + 1,
            !.context = contextDocuments]

\* Faulty variant: the client is not checked before the embed request.
processQueryUnchecked(text) ==
  /\ ~Asking
  /\ queryCall' = [IdleQuery EXCEPT !.pc = "embed", !.userId = session,
                                    !.text = text, !.embedCalls = 1]
  /\ UNCHANGED << call, storeVars, uuids, chatHistory, now, appended >>

\* processQuery(query) up to its first await: the check of the client, then
\* retrieveContext up to the embed request.
processQuery(text) ==
  /\ ~Asking
  /\ queryCall' = IF ~cohereClient
                  THEN [IdleQuery EXCEPT !.pc = "failed", !.userId = session,
                                         !.text = text,
                                         !.error = "Cohere API key not set"]
                  ELSE [IdleQuery EXCEPT !.pc = "embed", !.userId = session,
                                         !.text = text, !.embedCalls = 1]
  /\ UNCHANGED << call, storeVars, uuids, chatHistory, now, appended >>

\* The embed request answers: error propagates; without a first vector
\* retrieveContext returns no documents and no sources; else the search is issued.
queryEmbedded(outcome) ==
  /\ queryCall.pc = "embed"
  /\ LET answer == embed(<< queryCall.text >>, outcome)
     IN queryCall' =
          IF outcome = "error" THEN QueryThrown("Cohere embed error")
          ELSE IF answer = << >> THEN chatRequest(queryCall, << >>, << >>, << >>)
          ELSE [queryCall EXCEPT !.pc = "search", !.queryEmbedding = answer[1]]
  /\ UNCHANGED << call, storeVars, uuids, chatHistory, now, appended >>

\* Faulty variant: one source per retrieved chunk.
sourcesWithRepeats(results) == [k \in 1..Len(results) |-> results[k].documentId]

\* [...new Set(results.map((r) => r.documentId))]
sourcesOf(results) == Unique([k \in 1..Len(results) |-> results[k].documentId])

\* Faulty variant: a search without results fails the query.
querySearchedOrFail ==
  /\ queryCall.pc = "search"
  /\ LET r == search(queryCall.queryEmbedding, queryCall.userId, DefaultTopK,
                     DefaultThreshold[1], DefaultThreshold[2])
         results == r.results
         texts == [k \in 1..Len(results) |-> results[k].text]
         sources == sourcesOf(results)
     IN queryCall' =
          IF ~r.ok THEN QueryThrown("Vectors must have the same length")
          ELSE IF Len(sources) > 0
          THEN [queryCall EXCEPT !.pc = "names", !.documents = texts, !.sources = sources]
          ELSE QueryThrown("No relevant documents found")
  /\ UNCHANGED << call, storeVars, uuids, chatHistory, now, appended >>

\* vectorStore.search answers; with sources, getDocumentNames reads each of them.
querySearched ==
  /\ queryCall.pc = "search"
  /\ LET r == search(queryCall.queryEmbedding, queryCall.userId, DefaultTopK,
                     DefaultThreshold[1], DefaultThreshold[2])
         results == r.results
         texts == [k \in 1..Len(results) |-> results[k].text]
         sources == sourcesOf(results)
     IN queryCall' =
          IF ~r.ok THEN QueryThrown("Vectors must have the same length")
          ELSE IF Len(sources) > 0
          THEN [queryCall EXCEPT !.pc = "names", !.documents = texts, !.sources = sources]
          ELSE chatRequest(queryCall, texts, sources, << >>)
  /\ UNCHANGED << call, storeVars, uuids, chatHistory, now, appended >>

queryNamed ==
  /\ queryCall.pc = "names"
  /\ queryCall' = chatRequest(queryCall, queryCall.documents, queryCall.sources,
                              getDocumentNames(queryCall.sources))
  /\ UNCHANGED << call, storeVars, uuids, chatHistory, now, appended >>

\* The chat request answers: error propagates; else storeMessage("user", query)
\* builds its message and issues addItem.
queryAnswered(outcome) ==
  /\ queryCall.pc = "chat"
  /\ IF outcome = "error"
     THEN /\ queryCall' = QueryThrown("Cohere chat error")
          /\ UNCHANGED uuids
     ELSE \E id \in (1..MaxMsgs) \ uuids.msg :
            /\ Cardinality(uuids.msg) + 2 <= MaxMsgs
            /\ uuids' = [uuids EXCEPT !.msg = @ \cup {id}]
            /\ queryCall' = [queryCall EXCEPT
                 !.pc = "storeUser", !.response = Answer(queryCall.context),
                 !.writing = ChatMessage(id, queryCall.userId, "user", queryCall.text, << >>)]
  /\ UNCHANGED << call, storeVars, chatHistory, now, appended >>

\* addItem of the question settles: rejected, the call throws; added,
\* storeMessage("assistant", response, sources) builds its message and issues addItem.
questionStored ==
  /\ queryCall.pc = "storeUser"
  /\ \/ \E id \in (1..MaxMsgs) \ uuids.msg :
          /\ chatHistory' = addItem(chatHistory, queryCall.writing)
          /\ appended' = Append(appended, queryCall.writing.id)
          /\ uuids' = [uuids EXCEPT !.msg = @ \cup {id}]
          /\ queryCall' = [queryCall EXCEPT
               !.pc = "storeAssistant", !.stored = Append(@, queryCall.writing.id),
               !.writing = ChatMessage(id, queryCall.userId, "assistant",
                                       queryCall.response, queryCall.sources)]
     \/ /\ queryCall' = QueryThrown("add failed")
        /\ UNCHANGED << chatHistory, appended, uuids >>
  /\ UNCHANGED << call, storeVars, now >>

\* addItem of the answer settles: rejected, the call throws; added, processQuery
\* returns {message, sources, sourceNames}.
answerStored ==
  /\ queryCall.pc = "storeAssistant"
  /\ \/ /\ chatHistory' = addItem(chatHistory, queryCall.writing)
        /\ appended' = Append(appended, queryCall.writing.id)
        /\ queryCall' = [queryCall EXCEPT !.pc = "done", !.writing = NoMessage,
                                          !.stored = Append(@, queryCall.writing.id)]
     \/ /\ queryCall' = QueryThrown("add failed")
        /\ UNCHANGED << chatHistory, appended >>
  /\ UNCHANGED << call, storeVars, uuids, now >>

\* messages.sort((a, b) => b.timestamp - a.timestamp): stable, newest first.
RECURSIVE sortNewestFirst(_)
sortNewestFirst(messages) ==
  IF Len(messages) <= 1 THEN messages
  ELSE LET init == sortNewestFirst(SubSeq(messages, 1, Len(messages) - 1))
           last == messages[Len(messages)]
           before == SelectSeq(init, LAMBDA m : m.timestamp >= last.timestamp)
           after == SelectSeq(init, LAMBDA m : m.timestamp < last.timestamp)
       IN before \o << last >> \o after

\* Array.prototype.reverse
Reverse(seq) == [k \in 1..Len(seq) |-> seq[Len(seq) + 1 - k]]

\* MaintenanceAgent.getChatHistory(limit); limit 0 is falsy and stands for none.
getChatHistory(userId, limit) ==
  LET messages == sortNewestFirst(getItemsByUserId(chatHistory, userId))
  IN IF limit # 0
     THEN Reverse(SubSeq(messages, 1, Min(limit, Len(messages))))
     ELSE Reverse(messages)

\* MaintenanceAgent.clearHistory: deleteItem for each message of getChatHistory().
clearHistory ==
  /\ getItemsByUserId(chatHistory, session) # << >>
  /\ LET messages == getChatHistory(session, 0)
     IN chatHistory' = deleteItems(chatHistory, {messages[k].id : k \in 1..Len(messages)})
  /\ UNCHANGED << call, storeVars, uuids, queryCall, now, appended >>

\* A millisecond passes.
Tick ==
  /\ now < MaxClock
  /\ now' = now + 1
  /\ UNCHANGED << call, storeVars, uuids, chatHistory, queryCall, appended >>

\* ------------------------------------------------------------ specification

Next ==
  \/ \E u \in Users : SignIn(u)
  \/ setCohereApiKey
  \/ clearCohereApiKey
  \/ \E f \in Files : uploadDocument(f)
  \/ \E d \in 1..MaxDocs : deleteDocument(d)
  \/ \E d \in 1..MaxDocs : processStoredDocument(d)
  \/ extractStored
  \/ \E o \in EmbedOutcomes : embedStored(o)
  \/ \E w \in pending : addEmbeddingStored(w)
  \/ \E w \in pending : addEmbeddingFailed(w)
  \/ markProcessed
  \/ \E f \in Files : processDocument(f)
  \/ \E o \in EmbedOutcomes : embedLegacy(o)
  \/ addDocumentLegacy

Spec == Init /\ [][Next]_vars

\* ------------------------------------ specification of the file formats

\* Files whose media type and name disagree, or that are no document at all.
FormatFiles == {FilePng, FileNotes, FileHtml}

NextFormats ==
  \/ \E u \in Users : SignIn(u)
  \/ setCohereApiKey
  \/ clearCohereApiKey
  \/ \E f \in FormatFiles : uploadDocument(f)
  \/ \E d \in 1..MaxDocs : deleteDocument(d)
  \/ \E d \in 1..MaxDocs : processStoredDocument(d)
  \/ extractStored
  \/ \E o \in EmbedOutcomes : embedStored(o)
  \/ \E w \in pending : addEmbeddingStored(w)
  \/ \E w \in pending : addEmbeddingFailed(w)
  \/ markProcessed
  \/ \E f \in FormatFiles : processDocument(f)
  \/ \E o \in EmbedOutcomes : embedLegacy(o)
  \/ addDocumentLegacy

SpecFormats == Init /\ [][NextFormats]_vars

\* ------------------------------------------ specification of the agent's calls

\* The record processStoredDocument leaves of a file: text extracted, processed.
processedDocument(documentId, file, userId) ==
  [uploadedDocument(documentId, file, userId) EXCEPT
     !.textContent = extractText(file.name, file.type, file.content).text,
     !.processed = TRUE]

\* The embedding records a complete processStoredDocument stores for a document.
storedRecords(document, firstId) ==
  LET chunks == chunkText(document.textContent, ChunkSize, ChunkOverlap, isCSV(document))
      merged == mergeSimilarChunks(chunks, embed(chunks, "ok"), mergeThreshold(document), 100)
  IN embeddingRecords(merged.chunks, merged.embeddings, document.id, document.userId, firstId)

\* A store as a function from record id to record.
asStore(records) == [id \in {r.id : r \in records} |-> CHOOSE r \in records : r.id = id]

\* What processStoredDocument has reported when it returns after one embed call.
storedReports(n) ==
  << Report("extracting", 10, 1), Report("chunking", 20, 1), Report("embedding", 30, 1),
     progressPercent(30, 0, n), Report("embedding", 70, 1), Report("storing", 85, 1),
     Report("complete", 100, 1) >>

\* The browser after A has uploaded two.txt and B same.txt, and B, then A, has
\* processed their document.
TwoOwnersStore ==
  LET one == processedDocument(1, FileTwo, "A")
      two == processedDocument(2, FileSame, "B")
  IN [documents |-> asStore({one, two}),
      embeddings |-> asStore(storedRecords(two, 1) \cup storedRecords(one, 2)),
      uuids |-> [doc |-> 2, emb |-> 3, msg |-> {}],
      job |-> WithReports(Returned("processStoredDocument", 1, 1), storedReports(2))]

\* The browser after A's processDocument(two.txt) got one vector for two chunks.
ShortStore ==
  LET text == extractText(FileTwo.name, FileTwo.type, FileTwo.content).text
      chunks == chunkText(text, ChunkSize, ChunkOverlap, FALSE)
  IN [documents |-> asStore({legacyDocument(1, FileTwo, "A", text)}),
      embeddings |-> asStore(embeddingRecords(chunks, embed(chunks, "short"), 1, "A", 1)),
      uuids |-> [doc |-> 1, emb |-> 2, msg |-> {}],
      job |-> WithReports(Returned("processDocument", 1, 1),
                          << Report("chunking", 10, 1), Report("chunking", 30, 1),
                             Report("embedding", 40, 1), progressPercent(40, 0, 2),
                             Report("storing", 80, 1), Report("complete", 100, 1) >>)]

\* The browser before any upload.
EmptyStore ==
  [documents |-> << >>, embeddings |-> << >>,
   uuids |-> [doc |-> 0, emb |-> 0, msg |-> {}], job |-> IdleJob]

\* The stores the agent's calls are checked over: each is a state of Spec.
AgentStores == {EmptyStore, TwoOwnersStore, ShortStore}

\* Files handed to processDocument while the agent is in use.
AgentFiles == {FilePng}

InitAgent ==
  /\ session \in Users
  /\ cohereClient = FALSE
  /\ \E st \in AgentStores :
       /\ documents = st.documents
       /\ embeddings = st.embeddings
       /\ uuids = st.uuids
       /\ job = st.job
  /\ pending = {}
  /\ chatHistory = << >>
  /\ queryCall = IdleQuery
  /\ now = 0
  /\ appended = << >>
  /\ call = NoCall

NextAgent ==
  \/ \E u \in Users : SignIn(u)
  \/ setCohereApiKey
  \/ clearCohereApiKey
  \/ \E d \in 1..MaxDocs : deleteDocument(d)
  \/ \E d \in 1..MaxDocs : processStoredDocument(d)
  \/ \E f \in AgentFiles : processDocument(f)
  \/ \E text \in QueryTexts : processQuery(text)
  \/ \E o \in EmbedOutcomes : queryEmbedded(o)
  \/ querySearched
  \/ queryNamed
  \/ \E o \in ChatOutcomes : queryAnswered(o)
  \/ questionStored
  \/ answerStored
  \/ clearHistory
  \/ Tick

SpecAgent == InitAgent /\ [][NextAgent]_vars

\* ------------------------------- specification of the embedding batches

\* The documents whose chunks fill more than one batch.  The calls start where
\* their embedding loops are entered: processStoredDocument with the uploaded
\* document read and its text extracted and put back, processDocument with the
\* text extracted and the document id drawn.
storedCall(userId, file) ==
  LET r == extractText(file.name, file.type, file.content)
      document == [uploadedDocument(1, file, userId) EXCEPT !.textContent = r.text]
  IN [documents |-> (1 :> document),
      job |-> afterExtract(1, userId, document, << Report("extracting", 10, 1) >>)]

legacyCall(userId, file) ==
  [documents |-> << >>,
   job |-> legacyJob(1, file, userId, extractText(file.name, file.type, file.content).text)]

BatchCalls ==
  {storedCall(u, FileLong) : u \in Users}
    \cup {legacyCall(u, f) : u \in Users, f \in {FileLonger, FileTwo}}

InitBatch ==
  /\ cohereClient = TRUE
  /\ \E entered \in BatchCalls :
       /\ session = entered.job.userId
       /\ documents = entered.documents
       /\ job = entered.job
  /\ embeddings = << >>
  /\ uuids = [doc |-> 1, emb |-> 0, msg |-> {}]
  /\ pending = {}
  /\ chatHistory = << >>
  /\ queryCall = IdleQuery
  /\ now = 0
  /\ appended = << >>
  /\ call = NoCall

NextBatch ==
  \/ \E u \in Users : SignIn(u)
  \/ setCohereApiKey
  \/ clearCohereApiKey
  \/ \E d \in 1..MaxDocs : deleteDocument(d)
  \/ \E o \in EmbedOutcomes : embedStored(o)
  \/ \E w \in pending : addEmbeddingStored(w)
  \/ \E w \in pending : addEmbeddingFailed(w)
  \/ markProcessed
  \/ \E o \in EmbedOutcomes : embedLegacy(o)
  \/ addDocumentLegacy

SpecBatch == InitBatch /\ [][NextBatch]_vars

\* ------------------------------------------------------------- properties

Unauthorized == "Unauthorized: Document belongs to another user"
AlreadyProcessed == "Document already processed"
NotConfigured == "Cohere API key not set. Please provide your API key first."

\* Query vectors, topK values and similarity thresholds (p / q) tried by search.
Queries == {<< 12, 0 >>, << 0, 12 >>, << 12, 12 >>}
TopKs == {1, 5}
Thresholds == {<< 0, 1 >>, << 1, 2 >>, << 1, 1 >>}

\* C1: in every reachable state, for distinct owners a and b, every query vector,
\* topK and threshold, search(query, a, topK, threshold) returns no chunk whose
\* documentId names a document owned by b.
C1_SearchOwnerIsolation ==
  \A a \in Users, b \in Users, query \in Queries, topK \in TopKs, t \in Thresholds :
    a # b =>
      LET found == search(query, a, topK, t[1], t[2]).results
      IN \A k \in 1..Len(found) :
           ~(/\ found[k].documentId \in DOMAIN documents
             /\ documents[found[k].documentId].userId = b)

\* Both owners have a stored document with chunks, and a search by one of them
\* returns results.
C1_Witness ==
  \E a \in Users, b \in Users :
    /\ a # b
    /\ \E d \in DOMAIN documents :
         documents[d].userId = b /\ getEmbeddingsByDocumentId(d) # << >>
    /\ \E d \in DOMAIN documents :
         documents[d].userId = a /\ getEmbeddingsByDocumentId(d) # << >>
    /\ search(<< 12, 12 >>, a, 5, 0, 1).results # << >>

\* C2: no read path returns data of an owner other than the caller: for a document
\* id owned by someone else than the signed-in caller, getDocumentDetails and
\* exportDocument find nothing and getDocumentNames returns no file name.
C2_ReadsFilterByOwner ==
  \A d \in DOMAIN documents :
    documents[d].userId # session =>
      /\ ~getDocumentDetails(d).found
      /\ ~exportDocument(d).found
      /\ getDocumentNames(<< d >>) = << >>

\* The chunks a complete processStoredDocument of an uploaded document stores.
mergedChunksOf(document) ==
  LET chunks == chunksOf(document.fileName, document.mimeType, document.fileData,
                         ChunkSize, ChunkOverlap, isCSV(document))
  IN mergeSimilarChunks(chunks, embed(chunks, "ok"), mergeThreshold(document), 100).chunks

\* C3: once a processStoredDocument attempt has ended (returned or thrown) and no
\* write is in flight, the store holds for each uploaded document either none of
\* its embedding records or all of its merged chunks, one record per index.
C3_AllChunksOrNone ==
  (~Running /\ pending = {}) =>
    \A d \in DOMAIN documents :
      documents[d].fileData # NoContent =>
        LET stored == getEmbeddingsByDocumentId(d)
            merged == mergedChunksOf(documents[d])
        IN \/ stored = << >>
           \/ /\ Len(stored) = Len(merged)
              /\ {stored[k].chunkIndex : k \in 1..Len(stored)} = 0..(Len(merged) - 1)

\* C4: in every reachable state, a document whose processed flag is true has
\* non-empty extracted text, and when that text yields chunks the document has
\* stored embedding records.
C4_ProcessedHasTextAndEmbeddings ==
  \A d \in DOMAIN documents :
    documents[d].processed =>
      /\ documents[d].textContent # ""
      /\ chunkText(documents[d].textContent, ChunkSize, ChunkOverlap, isCSV(documents[d]))
           # << >>
         => getEmbeddingsByDocumentId(d) # << >>

\* C5: a deleteDocument(d) step removes document d and every embedding record
\* whose documentId is d, leaves every other record as it was, and lowers each
\* owner's chunk count in getStats and getStorageStats by exactly the number of
\* that owner's chunks of d.
C5_DeleteCascade ==
  [][\A d \in 1..MaxDocs :
       deleteDocument(d) =>
         /\ d \notin DOMAIN documents'
         /\ \A k \in DOMAIN embeddings' : embeddings'[k].documentId # d
         /\ DOMAIN documents' = DOMAIN documents \ {d}
         /\ \A k \in DOMAIN documents' : documents'[k] = documents[k]
         /\ DOMAIN embeddings' =
              {k \in DOMAIN embeddings : embeddings[k].documentId # d}
         /\ \A k \in DOMAIN embeddings' : embeddings'[k] = embeddings[k]
         /\ \A u \in Users :
              LET had == Cardinality({k \in DOMAIN embeddings :
                                        /\ embeddings[k].documentId = d
                                        /\ embeddings[k].userId = u})
              IN /\ getStats(u)'.totalEmbeddings = getStats(u).totalEmbeddings - had
                 /\ getStorageStats(u)'.totalChunks = getStorageStats(u).totalChunks - had
         /\ \A owner \in Users :
              (d \in DOMAIN documents /\ documents[d].userId = owner) =>
                getStats(owner)'.totalEmbeddings =
                  getStats(owner).totalEmbeddings - Len(getEmbeddingsByDocumentId(d))
     ]_vars

\* A document that was processed with at least one embedding call is gone with all
\* its embedding records, while another document still has its records.
C5_Witness ==
  /\ job.pc = "done"
  /\ job.op = "processStoredDocument"
  /\ job.calls > 0
  /\ job.documentId \notin DOMAIN documents
  /\ getEmbeddingsByDocumentId(job.documentId) = << >>
  /\ pending = {}
  /\ \E d \in DOMAIN documents : getEmbeddingsByDocumentId(d) # << >>

\* C6: a processStoredDocument(d, caller) step on an existing document of another
\* owner throws, issues no embedding call and leaves the documents store, the
\* embeddings store and the in-flight writes unchanged; with a credential
\* configured the error is Unauthorized (without one it is the earlier
\* NotConfigured).
C6_UnauthorizedProcess ==
  [][\A d \in 1..MaxDocs :
       (/\ d \in DOMAIN documents
        /\ documents[d].userId # session
        /\ processStoredDocument(d))
       => /\ job'.pc = "failed"
          /\ job'.error = IF cohereClient THEN Unauthorized ELSE NotConfigured
          /\ job'.calls = 0
          /\ documents' = documents
          /\ embeddings' = embeddings
          /\ pending' = pending
     ]_vars

\* The call has just thrown Unauthorized for an unprocessed document of the other
\* owner, which is still without text.
C6_Witness ==
  /\ job.pc = "failed"
  /\ job.error = Unauthorized
  /\ \E d \in DOMAIN documents :
       /\ documents[d].userId # session
       /\ ~documents[d].processed
       /\ documents[d].textContent = ""

\* C7: a deleteDocument(d) step on an existing document of another owner than the
\* caller leaves the document and the embedding records in the store.
C7_UnauthorizedDelete ==
  [][\A d \in 1..MaxDocs :
       (/\ deleteDocument(d)
        /\ d \in DOMAIN documents
        /\ documents[d].userId # session)
       => /\ documents' = documents
          /\ embeddings' = embeddings
     ]_vars

\* C8: in every reachable state no two embedding records of one document share a
\* chunkIndex.
C8_UniqueChunkIndex ==
  \A k1 \in DOMAIN embeddings, k2 \in DOMAIN embeddings :
    (k1 # k2 /\ embeddings[k1].documentId = embeddings[k2].documentId)
      => embeddings[k1].chunkIndex # embeddings[k2].chunkIndex

\* C9: in every reachable state all stored embedding vectors have the same
\* length, and none is empty.
C9_ConstantVectorLength ==
  /\ \A k \in DOMAIN embeddings : Len(embeddings[k].embedding) > 0
  /\ \A k1 \in DOMAIN embeddings, k2 \in DOMAIN embeddings :
       Len(embeddings[k1].embedding) = Len(embeddings[k2].embedding)

\* C10: a processStoredDocument(d) step on a document whose processed flag is true
\* throws, issues no embedding call and changes neither store nor the in-flight
\* writes; when the caller has a credential and owns the document the error is
\* AlreadyProcessed (otherwise the earlier NotConfigured or Unauthorized).
C10_AlreadyProcessed ==
  [][\A d \in 1..MaxDocs :
       (/\ d \in DOMAIN documents
        /\ documents[d].processed
        /\ processStoredDocument(d))
       => /\ job'.pc = "failed"
          /\ job'.error = IF ~cohereClient THEN NotConfigured
                          ELSE IF documents[d].userId # session THEN Unauthorized
                          ELSE AlreadyProcessed
          /\ job'.calls = 0
          /\ documents' = documents
          /\ embeddings' = embeddings
          /\ pending' = pending
     ]_vars

\* The call has just thrown AlreadyProcessed for a processed document of the
\* caller that has embedding records.
C10_Witness ==
  /\ job.pc = "failed"
  /\ job.error = AlreadyProcessed
  /\ \E d \in DOMAIN documents :
       /\ documents[d].userId = session
       /\ documents[d].processed
       /\ getEmbeddingsByDocumentId(d) # << >>


\* ------------------------------------------------------------ search (C15, C16)

SearchTopKs == {1, 2, 5}

\* The ids of the owner's stored embeddings.
ownedEmbeddings(userId) == {id \in DOMAIN embeddings : embeddings[id].userId = userId}

\* The owner's records that score at least p / q against the query vector.
qualifying(query, userId, p, q) ==
  {id \in ownedEmbeddings(userId) :
     SimGE(Cosine(query, embeddings[id].embedding), p, q)}

\* C15: in every reachable state, for every query vector, topK and threshold,
\* the search of the signed-in user (every store content is reached under either
\* session) returns the first topK of that owner's records scoring at least the
\* threshold, in descending order of similarity: it has min(topK, number of
\* qualifying records) entries, all distinct qualifying records of the owner
\* carrying their own similarity, no entry scores higher than the one before it,
\* and no omitted qualifying record scores higher than a returned one.
C15_SearchTopK ==
  \A query \in Queries, topK \in SearchTopKs, t \in Thresholds :
    LET r == search(query, session, topK, t[1], t[2])
        found == r.results
        good == qualifying(query, session, t[1], t[2])
        returned == {found[k].id : k \in 1..Len(found)}
    IN r.ok =>
         /\ Len(found) = Min(topK, Cardinality(good))
         /\ Cardinality(returned) = Len(found)
         /\ returned \subseteq good
         /\ \A k \in 1..Len(found) :
              /\ found[k].similarity = Cosine(query, embeddings[found[k].id].embedding)
              /\ found[k].documentId = embeddings[found[k].id].documentId
              /\ found[k].text = embeddings[found[k].id].text
              /\ k < Len(found) => ~SimGT(found[k + 1].similarity, found[k].similarity)
         /\ \A id \in good \ returned : \A k \in 1..Len(found) :
              ~SimGT(Cosine(query, embeddings[id].embedding), found[k].similarity)

\* An owner has two records stored in ascending order of similarity to the query
\* and the other owner has records too: with threshold 0 and topK = 1 the search
\* returns the second record and omits the first, with threshold 1/2 and topK = 5
\* it returns only the one record that reaches the threshold.
C15_Witness ==
  \E userId \in Users, other \in Users, query \in Queries :
    LET r == search(query, userId, 1, 0, 1)
        mine == getItemsByUserId(embeddings, userId)
    IN /\ other # userId
       /\ ownedEmbeddings(other) # {}
       /\ Len(mine) = 2
       /\ r.ok /\ Len(r.results) = 1
       /\ Cardinality(qualifying(query, userId, 0, 1)) = 2
       /\ r.results[1].id = mine[2].id
       /\ SimGT(r.results[1].similarity, Cosine(query, mine[1].embedding))
       /\ Len(search(query, userId, 5, 1, 2).results) = 1

\* C16: when one of the owner's stored embeddings has a length other than the
\* query vector's, search fails and returns no result list, whatever topK and
\* threshold are.
C16_LengthMismatchFails ==
  \A userId \in Users, query \in Queries, topK \in TopKs, t \in Thresholds :
    (\E id \in ownedEmbeddings(userId) : Len(embeddings[id].embedding) # Len(query))
      => LET r == search(query, userId, topK, t[1], t[2])
         IN ~r.ok /\ r.results = << >>

\* An owner has a record of another length together with a record of the query's
\* length that scores above the threshold, and the search fails.
C16_Witness ==
  \E userId \in Users, query \in Queries :
    /\ \E id \in ownedEmbeddings(userId) : Len(embeddings[id].embedding) # Len(query)
    /\ \E id \in ownedEmbeddings(userId) :
         /\ Len(embeddings[id].embedding) = Len(query)
         /\ SimGE(Cosine(query, embeddings[id].embedding), 1, 2)
    /\ ~search(query, userId, 5, 1, 2).ok


\* ------------------------------------------------------ the agent (C11, C17-C19)

AgentNotConfigured == "Cohere API key not set"

nothingRetrieved ==
  /\ \A id \in ownedEmbeddings(queryCall.userId) :
       Len(embeddings[id].embedding) = Len(queryCall.queryEmbedding)
  /\ qualifying(queryCall.queryEmbedding, queryCall.userId,
                DefaultThreshold[1], DefaultThreshold[2]) = {}

\* C17: when the search of a query finds no chunk, the call goes on to the chat
\* request, issued once and without evidence documents, with an empty source
\* list; and a call that retrieved no chunk and returns, returns the answer of
\* that request with an empty source list and has added an answer message whose
\* documentIds are empty.
C17_NoEvidenceStillAnswers ==
  [][/\ (queryCall.pc = "search" /\ nothingRetrieved /\ querySearched) =>
          /\ queryCall'.pc = "chat"
          /\ queryCall'.chatCalls = 1
          /\ queryCall'.context = << >>
          /\ queryCall'.sources = << >> /\ queryCall'.sourceNames = << >>
     /\ (queryCall.pc = "storeAssistant" /\ queryCall.documents = << >>
         /\ answerStored /\ queryCall'.pc = "done") =>
          /\ queryCall'.response = Answer(<< >>)
          /\ queryCall'.chatCalls = 1 /\ queryCall'.context = << >>
          /\ queryCall'.sources = << >> /\ queryCall'.sourceNames = << >>
          /\ LET answer == chatHistory'[appended'[Len(appended')]]
             IN /\ answer.role = "assistant"
                /\ answer.content = Answer(<< >>)
                /\ answer.documentIds = << >>
    ]_vars

\* An owner whose stored chunks all score below the floor has asked, the search
\* has run and found nothing, and the call has returned with the answer stored.
C17_Witness ==
  /\ queryCall.pc = "done"
  /\ queryCall.queryEmbedding # << >>
  /\ queryCall.documents = << >> /\ queryCall.sources = << >>
  /\ ownedEmbeddings(queryCall.userId) # {}
  /\ Len(queryCall.stored) = 2
  /\ queryCall.stored[2] \in DOMAIN chatHistory
  /\ chatHistory[queryCall.stored[2]].documentIds = << >>


ServiceErrors == {"Cohere embed error", "Cohere chat error"}

\* The document ids of the chunks the search of the waiting call retrieves.
retrievedDocuments ==
  LET results == search(queryCall.queryEmbedding, queryCall.userId, DefaultTopK,
                        DefaultThreshold[1], DefaultThreshold[2]).results
  IN {results[k].documentId : k \in 1..Len(results)}

\* C18: a call is made under the id of the owner who asks; the sources it keeps
\* from its search are the ids of the documents of the retrieved chunks, each
\* once, and stay so to the end; the two writes of a call add, in this order, the
\* question and the answer under that owner's id, the answer with those sources
\* as documentIds; a call that has returned has added exactly these two messages;
\* a step in which the embed or the chat request fails ends the call with that
\* error, and such a call has added no message.
C18_TwoMessagesOrNone ==
  [][/\ (\E text \in QueryTexts : processQuery(text)) => queryCall'.userId = session
     /\ (queryCall.pc = "search" /\ querySearched /\ queryCall'.pc # "failed") =>
          /\ {queryCall'.sources[k] : k \in 1..Len(queryCall'.sources)} = retrievedDocuments
          /\ Cardinality(retrievedDocuments) = Len(queryCall'.sources)
     /\ (queryCall.pc \in {"names", "chat", "storeUser", "storeAssistant"}
         /\ queryCall'.pc # "failed") =>
          /\ queryCall'.sources = queryCall.sources
          /\ queryCall'.userId = queryCall.userId /\ queryCall'.text = queryCall.text
     /\ (queryCall.pc = "storeUser" /\ queryCall'.pc = "storeAssistant") =>
          \E id \in (1..MaxMsgs) \ DOMAIN chatHistory :
            /\ DOMAIN chatHistory' = DOMAIN chatHistory \cup {id}
            /\ \A other \in DOMAIN chatHistory : chatHistory'[other] = chatHistory[other]
            /\ appended' = Append(appended, id)
            /\ queryCall'.stored = << id >>
            /\ chatHistory'[id].userId = queryCall.userId
            /\ chatHistory'[id].role = "user"
            /\ chatHistory'[id].content = queryCall.text
     /\ (queryCall.pc = "storeAssistant" /\ queryCall'.pc = "done") =>
          \E id \in (1..MaxMsgs) \ DOMAIN chatHistory :
            /\ DOMAIN chatHistory' = DOMAIN chatHistory \cup {id}
            /\ \A other \in DOMAIN chatHistory : chatHistory'[other] = chatHistory[other]
            /\ appended' = Append(appended, id)
            /\ queryCall'.stored = Append(queryCall.stored, id)
            /\ chatHistory'[id].userId = queryCall.userId
            /\ chatHistory'[id].role = "assistant"
            /\ chatHistory'[id].content = queryCall'.response
            /\ chatHistory'[id].documentIds = queryCall.sources
     /\ (Asking /\ queryCall'.pc \notin {"storeAssistant", "done"}
         /\ queryCall.pc \notin {"storeUser", "storeAssistant"}) =>
          /\ queryCall'.stored = << >>
          /\ \A id \in DOMAIN chatHistory' : id \in DOMAIN chatHistory
          /\ appended' = appended
     /\ queryCall'.pc = "done" => Len(queryCall'.stored) = 2
     /\ (\/ queryCall.pc = "embed" /\ queryEmbedded("error")
         \/ queryCall.pc = "chat" /\ queryAnswered("error")) =>
          /\ queryCall'.pc = "failed"
          /\ queryCall'.error \in ServiceErrors
          /\ queryCall'.stored = << >>
          /\ UNCHANGED << chatHistory, appended >>
    ]_vars

\* An owner has asked a question that retrieved two chunks of one document, and
\* the call has returned: the question and then the answer are in the history
\* under the owner's id, the answer with that one document id.
C18_Witness ==
  /\ queryCall.pc = "done"
  /\ Len(queryCall.documents) = 2 /\ Len(queryCall.sources) = 1
  /\ Len(queryCall.stored) = 2
  /\ \A k \in 1..2 : queryCall.stored[k] \in DOMAIN chatHistory
  /\ chatHistory[queryCall.stored[1]].role = "user"
  /\ chatHistory[queryCall.stored[2]].role = "assistant"
  /\ chatHistory[queryCall.stored[2]].documentIds = queryCall.sources
  /\ chatHistory[queryCall.stored[2]].userId = queryCall.userId
  /\ appended = queryCall.stored


HistoryLimits == {0, 1, 2}

\* The ids of the owner's messages still in the history, in the order added.
inOrderAdded(userId) ==
  SelectSeq(appended, LAMBDA id : id \in DOMAIN chatHistory /\ chatHistory[id].userId = userId)

\* C19: in every reachable state, for every owner, getChatHistory without a limit
\* returns the owner's messages in the order they were added, and with a limit n
\* the last n of them in that order, whatever their timestamps.
C19_ChronologicalHistory ==
  \A userId \in Users, limit \in HistoryLimits :
    LET mine == inOrderAdded(userId)
        expected == IF limit = 0 \/ limit >= Len(mine) THEN mine
                    ELSE SubSeq(mine, Len(mine) - limit + 1, Len(mine))
        history == getChatHistory(userId, limit)
    IN [k \in 1..Len(history) |-> history[k].id] = expected


\* ------------------------------------------------------- file formats (C12)

\* The media types of plain text, markdown, JSON, delimited tabular text, PDF and
\* word-processor documents.
RecognizedTypes ==
  {"text/plain", "text/markdown", "application/json", "text/csv", "application/pdf",
   MDocx, "application/msword"}

UnsupportedFormat(mimeType) == "Unsupported file type: " \o mimeType

\* Processing the files picked out by unsupported(name, mimeType) fails as
\* unsupported and leaves no state: the extraction step of processStoredDocument
\* and the first step of processDocument end the call with that error and leave
\* the documents and embeddings stores and the writes in flight as they were, and
\* no such document has text, is marked processed, or has an embedding record
\* stored or in flight.
failsUnsupported(unsupported(_, _)) ==
  /\ (/\ job.pc = "extract"
      /\ unsupported(job.document.fileName, job.document.mimeType)
      /\ extractStored) =>
       /\ job'.pc = "failed"
       /\ job'.error = UnsupportedFormat(job.document.mimeType)
       /\ UNCHANGED << documents, embeddings, pending, uuids >>
  /\ \A f \in FormatFiles :
       (cohereClient /\ unsupported(f.name, f.type) /\ processDocument(f)) =>
         /\ job'.pc = "failed"
         /\ job'.error = UnsupportedFormat(f.type)
         /\ UNCHANGED << documents, embeddings, pending >>
  /\ \A d \in DOMAIN documents' :
       unsupported(documents'[d].fileName, documents'[d].mimeType) =>
         /\ ~documents'[d].processed
         /\ documents'[d].textContent = ""
         /\ \A id \in DOMAIN embeddings' : embeddings'[id].documentId # d
         /\ \A w \in pending' : w.rec.documentId # d

outsideRecognized(name, mimeType) == mimeType \notin RecognizedTypes

noTextTypeNoKnownName(name, mimeType) ==
  /\ mimeType \notin RecognizedTypes
  /\ ~StartsWith(mimeType, "text/")
  /\ ~EndsWith(name, ".csv")
  /\ ~EndsWith(name, ".md")

MaxMerge == 3

\* Chunk vectors: three directions 18, 27 and 90 degrees apart from the first, and
\* a pair of four-dimensional vectors whose cosine similarity is exactly 9 / 10.
MergeVectors ==
  {<< 18, 0 >>, << 18, 6 >>, << 12, 6 >>, << 0, 12 >>, << 10, 0, 0, 0 >>, << 9, 3, 3, 1 >>}

MergeTexts == {"Pump on.", "Valve shut"}

\* similarityThreshold: the default 0.9 and the 0.92 of processStoredDocument.
MergeThresholds == {<< 9, 10 >>, << 92, 100 >>}

MergeLengths == 0..MaxMerge

\* mergeSimilarChunks(chunks, embeddings, p / q) is called and returns.
callMergeSimilarChunks(texts, vectors, p, q) ==
  /\ call = NoCall
  /\ call' = [fn |-> "mergeSimilarChunks", pc |-> "returned", chunks |-> texts,
              embeddings |-> vectors, p |-> p, q |-> q,
              result |-> mergeSimilarChunks(texts, vectors, p, q),
              again |-> NoCall]
  /\ UNCHANGED << storeVars, uuids, agentVars >>

\* mergeSimilarChunks is called on its own output, with the same threshold.
callMergeAgain ==
  /\ call.fn = "mergeSimilarChunks"
  /\ call.pc = "returned"
  /\ call' = [call EXCEPT !.pc = "again",
                          !.again = mergeSimilarChunks(call.result.chunks, call.result.embeddings,
                                                       call.p, call.q)]
  /\ UNCHANGED << storeVars, uuids, agentVars >>

NextMerge ==
  \/ \E n \in MergeLengths :
       \E texts \in [1..n -> MergeTexts], vectors \in [1..n -> MergeVectors],
          t \in MergeThresholds :
         callMergeSimilarChunks(texts, vectors, t[1], t[2])
  \/ callMergeAgain

SpecMerge == Init /\ [][NextMerge]_vars

\* ----------------------------------------- specification of chunkText

\* The turns of the while loop a call of chunkText is followed for.
MaxTurns == 6

ChunkTexts == {"", "abcd", "ab  cdef", "abcdefghij"}
ChunkSizes == 1..4
ChunkOverlaps == 0..4

\* chunkText(text, chunkSize, overlap, false) is called: chunks = [], start = 0.
callChunkText(text, chunkSize, overlap) ==
  /\ call = NoCall
  /\ call' = [fn |-> "chunkText", text |-> text, chunkSize |-> chunkSize,
              overlap |-> overlap, turns |-> 0,
              st |-> [start |-> 0, chunks |-> << >>, done |-> FALSE]]
  /\ UNCHANGED << storeVars, uuids, agentVars >>

\* One turn of the while loop (the loop test included).
chunkTextTurn ==
  /\ call.fn = "chunkText"
  /\ ~call.st.done
  /\ call.turns < MaxTurns
  /\ call' = [call EXCEPT !.turns = @ + 1,
                          !.st = chunkTurn(call.text, call.chunkSize, call.overlap, call.st)]
  /\ UNCHANGED << storeVars, uuids, agentVars >>

\* Delimited files of one to three rows, and the size bounds tried on their
\* table descriptions (the header section of "t.csv" with one column is 40
\* characters long, a row with its continuation lines 23).
CsvContents == {"a\n1", "a\n1\n2", "a\n1\n2\n3", "a,b\n1,2\n3,4"}
StructuredSizes == {64, 70, 80, 100, 1000}

\* chunkText(text, maxChunkSize, 200, true) on the table description parseCSV
\* makes of a delimited file.
callChunkStructured(csv, maxChunkSize) ==
  /\ call = NoCall
  /\ LET text == parseCSV("t.csv", csv).text
     IN call' = [fn |-> "chunkStructuredText", text |-> text, maxChunkSize |-> maxChunkSize,
                 result |-> chunkText(text, maxChunkSize, ChunkOverlap, TRUE)]
  /\ UNCHANGED << storeVars, uuids, agentVars >>

NextChunk ==
  \/ \E text \in ChunkTexts, chunkSize \in ChunkSizes, overlap \in ChunkOverlaps :
       callChunkText(text, chunkSize, overlap)
  \/ chunkTextTurn
  \/ \E csv \in CsvContents, maxChunkSize \in StructuredSizes :
       callChunkStructured(csv, maxChunkSize)

SpecChunk == Init /\ [][NextChunk]_vars

\* ------------------------------------ specification of delimited files

CsvFiles == {FileCsv, FileSheet, FileCsvAsText}

NextCsv ==
  \/ \E u \in Users : SignIn(u)
  \/ setCohereApiKey
  \/ \E f \in CsvFiles : uploadDocument(f)
  \/ \E d \in 1..MaxDocs : processStoredDocument(d)
  \/ extractStored
  \/ \E o \in EmbedOutcomes : embedStored(o)
  \/ \E w \in pending : addEmbeddingStored(w)
  \/ \E w \in pending : addEmbeddingFailed(w)
  \/ markProcessed

SpecCsv == Init /\ [][NextCsv]_vars

\* ------------------------------------ specification of processStoredDocuments

ManyFiles == {FileCsv, FileTwo, FilePng}

\* Array.from(selectedDocs): the selected ids, each once, at least one.
DocLists ==
  { ids \in UNION { [1..n -> 1..MaxDocs] : n \in 1..MaxDocs } :
      \A a, b \in DOMAIN ids : ids[a] = ids[b] => a = b }

\* The embedding ids left suffice for the chunks of the document.
roomFor(documentId) ==
  documentId \in DOMAIN documents =>
    uuids.emb + Len(chunksOf(documents[documentId].fileName, documents[documentId].mimeType,
                             documents[documentId].fileData, ChunkSize, ChunkOverlap,
                             isCSV(documents[documentId]))) <= MaxEmbIds

\* processStoredDocuments(documentIds, userId) up to the first await of the first
\* processStoredDocument; the stores as the call found them are kept to compare.
callProcessStoredDocuments(ids) ==
  /\ call = NoCall
  /\ ~Running
  /\ pending = {}
  /\ \A k \in DOMAIN ids : ids[k] \in 1..uuids.doc
  /\ roomFor(ids[1])
  /\ job' = startStored(ids[1], session)
  /\ call' = [fn |-> "processStoredDocuments", pc |-> "await", documentIds |-> ids,
              userId |-> session, i |-> 1, results |-> << >>, error |-> "",
              documentsBefore |-> documents, embeddingsBefore |-> embeddings]
  /\ UNCHANGED << session, cohereClient, documents, embeddings, uuids, pending >>
  /\ UNCHANGED agentVars

\* Faulty variant: a rejection is swallowed and the loop goes on.
continueAfterFailure ==
  /\ call.fn = "processStoredDocuments"
  /\ call.pc = "await"
  /\ job.pc \in {"done", "failed"}
  /\ IF call.i = Len(call.documentIds)
     THEN /\ call' = [call EXCEPT !.pc = "returned",
                                  !.results = Append(@, job.documentId)]
          /\ UNCHANGED job
     ELSE /\ roomFor(call.documentIds[call.i + 1])
          /\ call' = [call EXCEPT !.i = @ + 1, !.results = Append(@, job.documentId)]
          /\ job' = startStored(call.documentIds[call.i + 1], call.userId)
  /\ UNCHANGED << session, cohereClient, documents, embeddings, uuids, pending >>
  /\ UNCHANGED agentVars

\* The awaited processStoredDocument has settled: a rejection leaves the loop and
\* the function, a result is pushed and the loop goes to the next id or returns.
continueStoredDocuments ==
  /\ call.fn = "processStoredDocuments"
  /\ call.pc = "await"
  /\ job.pc \in {"done", "failed"}
  /\ IF job.pc = "failed"
     THEN /\ call' = [call EXCEPT !.pc = "failed", !.error = job.error]
          /\ UNCHANGED job
     ELSE IF call.i = Len(call.documentIds)
     THEN /\ call' = [call EXCEPT !.pc = "returned",
                                  !.results = Append(@, job.documentId)]
          /\ UNCHANGED job
     ELSE /\ roomFor(call.documentIds[call.i + 1])
          /\ call' = [call EXCEPT !.i = @ + 1, !.results = Append(@, job.documentId)]
          /\ job' = startStored(call.documentIds[call.i + 1], call.userId)
  /\ UNCHANGED << session, cohereClient, documents, embeddings, uuids, pending >>
  /\ UNCHANGED agentVars

NextMany ==
  \/ \E u \in Users : SignIn(u)
  \/ setCohereApiKey
  \/ clearCohereApiKey
  \/ \E f \in ManyFiles : uploadDocument(f)
  \/ \E ids \in DocLists : callProcessStoredDocuments(ids)
  \/ continueStoredDocuments
  \/ extractStored
  \/ \E o \in EmbedOutcomes : embedStored(o)
  \/ \E w \in pending : addEmbeddingStored(w)
  \/ \E w \in pending : addEmbeddingFailed(w)
  \/ markProcessed

SpecMany == Init /\ [][NextMany]_vars

\* ------------------------------------ specification of the API key form

\* What the user types: blanks, a key the service accepts and one it rejects.
GoodKey == "good-key"
BadKey == "bad-key"
ApiKeys == {"  ", GoodKey, BadKey}

\* The form before its first submit: no client key, nothing in local storage.
NoKeyCall == [fn |-> "handleSetKey", pc |-> "ended", clientKey |-> "", saving |-> {},
              saved |-> "", error |-> "", isSet |-> FALSE]

keyForm == IF call.fn = "handleSetKey" THEN call ELSE NoKeyCall

\* handleSetKey up to the await of client.validateKey(): setCohereApiKey(apiKey,
\* rememberKey) replaces the client and, with rememberKey, starts the import whose
\* callback saves the key.
handleSetKey(apiKey, rememberKey) ==
  /\ call.fn \in {"none", "handleSetKey"}
  /\ keyForm.pc # "validating"
  /\ IF Trim(apiKey) = ""
     THEN /\ call' = [keyForm EXCEPT !.pc = "ended", !.error = "Please enter an API key"]
          /\ UNCHANGED cohereClient
     ELSE /\ cohereClient' = TRUE
          /\ call' = [keyForm EXCEPT !.pc = "validating", !.error = "",
                                     !.clientKey = apiKey,
                                     !.saving = IF rememberKey THEN @ \cup {apiKey} ELSE @]
  /\ UNCHANGED << session, documents, embeddings, uuids, job, pending >>
  /\ UNCHANGED agentVars

\* The callback of import("./secure-storage"): saveApiKey(apiKey).
saveApiKey(apiKey) ==
  /\ call.fn = "handleSetKey"
  /\ apiKey \in call.saving
  /\ call' = [call EXCEPT !.saving = @ \ {apiKey}, !.saved = apiKey]
  /\ UNCHANGED << storeVars, uuids, agentVars >>

\* client.validateKey() has settled: true when the test embed went through,
\* false when it threw (a rejected key, or any other failure of the request).
validateKey(isValid) ==
  /\ call.fn = "handleSetKey"
  /\ call.pc = "validating"
  /\ isValid => call.clientKey = GoodKey
  /\ call' = IF isValid
             THEN [call EXCEPT !.pc = "set", !.isSet = TRUE]
             ELSE [call EXCEPT !.pc = "failed", !.error = "Invalid API key",
                               !.isSet = FALSE]
  /\ UNCHANGED << storeVars, uuids, agentVars >>

\* The service rejects every request made with the rejected key.
embedWithKey(outcome) ==
  /\ keyForm.clientKey = BadKey => outcome = "error"
  /\ embedStored(outcome)

NextKey ==
  \/ \E k \in ApiKeys, remember \in BOOLEAN : handleSetKey(k, remember)
  \/ \E k \in ApiKeys : saveApiKey(k)
  \/ \E isValid \in BOOLEAN : validateKey(isValid)
  \/ \E f \in {FileCsv} : uploadDocument(f)
  \/ \E d \in 1..MaxDocs : processStoredDocument(d)
  \/ extractStored
  \/ \E o \in EmbedOutcomes : embedWithKey(o)
  \/ \E w \in pending : addEmbeddingStored(w)
  \/ markProcessed

SpecKey == Init /\ [][NextKey]_vars

\* ------------------------------------------------- the embedding batches

\* The embedding loop of processStoredDocument throws the embedding error.
embedThrows ==
  /\ job.op = "processStoredDocument"
  /\ job.pc = "embed"
  /\ job'.pc = "failed"
  /\ job'.error = "Cohere embed error"

recordsOf(documentId) ==
  {k \in DOMAIN embeddings : embeddings[k].documentId = documentId}
    \cup {w.rec.id : w \in {o \in pending : o.rec.documentId = documentId}}

\* C13: when the embedding call of a batch of processStoredDocument fails, whichever
\* batch it is, the call fails at once with that error and the failing call was
\* its last one; nothing is written or put in flight, no embedding record of the
\* document exists, the document stays unprocessed, and processing the document
\* again starts with all its chunks, no vector and the first batch.  A failed call
\* sends nothing more.
C13_EmbedFailureFailsAll ==
  /\ [][embedThrows =>
          /\ job'.op = "processStoredDocument"
          /\ job'.calls = job.calls + 1
          /\ job'.calls = Len(job.sent) + 1
          /\ job'.allEmbeddings = << >>
          /\ UNCHANGED << documents, embeddings, pending, uuids, cohereClient >>
          /\ recordsOf(job.documentId) = {}
          /\ job.documentId \in DOMAIN documents => ~documents[job.documentId].processed
          /\ (cohereClient /\ job.documentId \in DOMAIN documents) =>
               LET retry == startStored(job.documentId, job.userId)
               IN /\ retry.pc = "embed"
                  /\ retry.i = 0
                  /\ retry.calls = 0
                  /\ retry.allEmbeddings = << >>
                  /\ retry.sent = << >>
                  /\ retry.chunks = job.chunks
                  /\ batchOf(retry.chunks, retry.i, StoredBatchSize)
                       = SubSeq(job.chunks, 1, Min(StoredBatchSize, Len(job.chunks)))]_vars
  /\ [][job.pc = "failed" => job' = job]_vars

\* The call for a document of three batches has failed in its second batch.
C13_Witness ==
  /\ job.op = "processStoredDocument"
  /\ job.pc = "failed"
  /\ job.error = "Cohere embed error"
  /\ job.calls = 2
  /\ cohereClient
  /\ 1 \in DOMAIN documents
  /\ ~documents[1].processed
  /\ Len(startStored(1, documents[1].userId).chunks) > 2 * StoredBatchSize
  /\ embeddings = << >>
  /\ pending = {}

\* The batches sent so far, one after the other.
RECURSIVE Flatten(_)
Flatten(batches) ==
  IF batches = << >> THEN << >>
  ELSE Flatten(SubSeq(batches, 1, Len(batches) - 1)) \o batches[Len(batches)]

\* The embedding loop has been entered and the locals of the call are alive.
inEmbedding == job.pc \in {"embed", "addDocument", "store", "mark"} /\ job.chunks # << >>

batchSizeOf(op) == IF op = "processStoredDocument" THEN StoredBatchSize ELSE LegacyBatchSize

\* The batches are consecutive slices of the chunk sequence of at most 96 items,
\* sent by one call each, and every chunk before i has been sent exactly once, in
\* order; once the loop is over, that is every chunk.
batchesPartition ==
  inEmbedding =>
    /\ \A b \in 1..Len(job.sent) :
         /\ Len(job.sent[b]) >= 1
         /\ Len(job.sent[b]) <= batchSizeOf(job.op)
         /\ batchSizeOf(job.op) <= 96
         /\ b < Len(job.sent) => Len(job.sent[b]) = batchSizeOf(job.op)
    /\ Len(job.sent) = job.calls
    /\ Flatten(job.sent) = SubSeq(job.chunks, 1, Min(job.i, Len(job.chunks)))
    /\ job.pc = "embed" <=> job.i < Len(job.chunks)

\* The vector list holds one vector for each chunk sent, the k-th being the vector
\* of the k-th chunk.
vectorsAligned ==
  inEmbedding =>
    /\ Len(job.allEmbeddings) = Min(job.i, Len(job.chunks))
    /\ \A k \in 1..Len(job.allEmbeddings) : job.allEmbeddings[k] = ModelVec(job.chunks[k])

\* C14: the embedding loop sends the chunks in consecutive batches of at most 96,
\* each chunk in exactly one batch, one call after the other in order, and its
\* vector list holds one vector per chunk, the i-th being that of the i-th chunk.
C14_EmbedAll == batchesPartition /\ vectorsAligned

\* ------------------------------------------------------- progress reports

\* Progress values are fractions num / den.
ReportLE(a, b) == a.num * b.den <= b.num * a.den

IsHundred(r) == r.num = 100 * r.den

\* C20: the progress values a call of processStoredDocument or processDocument has
\* reported never decrease; 100 is reported at most once, as the last report and
\* with the stage "complete", and only by a call that returns: a call that has
\* failed has never reported 100, and a call that has returned has.
C20_ProgressMonotone ==
  job.op \in {"processStoredDocument", "processDocument"} =>
    /\ \A k \in 1..(Len(job.reports) - 1) : ReportLE(job.reports[k], job.reports[k + 1])
    /\ \A k \in 1..Len(job.reports) :
         IsHundred(job.reports[k]) <=> job.reports[k].stage = "complete"
    /\ \A k \in 1..Len(job.reports) :
         IsHundred(job.reports[k]) => k = Len(job.reports) /\ job.pc = "done"
    /\ job.pc = "done" => IsHundred(job.reports[Len(job.reports)])

\* A call of processStoredDocument with three batches has returned: it reported
\* once per batch, the second and third time a fraction of the chunk count.
C20_Witness ==
  /\ job.op = "processStoredDocument"
  /\ job.pc = "done"
  /\ Len(job.reports) = 9
  /\ job.reports[9] = Report("complete", 100, 1)
  /\ job.reports[5] = progressPercent(30, StoredBatchSize, 2 * StoredBatchSize + 1)
  /\ job.reports[6] = progressPercent(30, 2 * StoredBatchSize, 2 * StoredBatchSize + 1)

\* ------------------------------------------------------ mergeSimilarChunks

similarVectors(a, b, p, q) == SimGE(cosineSimilarity(a, b), p, q)

\* C21: mergeSimilarChunks run on its own output with the same threshold returns
\* that output unchanged (the same texts and the same vectors), and no two vectors
\* of the output of one pass are similar at or above the threshold.
C21_MergeIdempotent ==
  (call.fn = "mergeSimilarChunks" /\ call.pc = "again") =>
    /\ call.again.chunks = call.result.chunks
    /\ call.again.embeddings = call.result.embeddings
    /\ \A a \in 1..Len(call.result.embeddings), b \in 1..Len(call.result.embeddings) :
         a # b => ~similarVectors(call.result.embeddings[a], call.result.embeddings[b],
                                  call.p, call.q)

\* The indices of clusters[1..k].
assigned(clusters, k) ==
  UNION {{clusters[c][m] : m \in 1..Len(clusters[c])} : c \in 1..k}

\* dot / (|a| |b|) >= p / q for vectors of one length and p, q > 0, in integers.
atLeast(a, b, p, q) ==
  /\ Len(a) = Len(b)
  /\ Dot(a, b, 1) >= 0
  /\ Dot(a, a, 1) * Dot(b, b, 1) > 0
  /\ Dot(a, b, 1) * Dot(a, b, 1) * q * q >= p * p * Dot(a, a, 1) * Dot(b, b, 1)

\* C24: mergeSimilarChunks takes the seeds in index order, each the first index not
\* yet in a cluster; the cluster of a seed holds the seed and exactly the later
\* indices, not yet in a cluster, whose vector is similar to the seed's own vector
\* at or above the threshold (equal to the threshold merges); every index is in
\* exactly one cluster, and a cluster of one passes its text and vector through.
C24_SeedClusters ==
  call.fn = "mergeSimilarChunks" =>
    LET clusters == call.result.clusters
        n == Len(call.chunks)
    IN /\ Len(call.result.chunks) = Len(clusters)
       /\ Len(call.result.embeddings) = Len(clusters)
       /\ assigned(clusters, Len(clusters)) = 1..n
       /\ \A c \in 1..Len(clusters) :
            LET seed == clusters[c][1]
                before == assigned(clusters, c - 1)
            IN /\ seed \notin before
               /\ \A j \in 1..(seed - 1) : j \in before
               /\ \A m \in 1..(Len(clusters[c]) - 1) : clusters[c][m] < clusters[c][m + 1]
               /\ \A j \in (seed + 1)..n :
                    (\E m \in 2..Len(clusters[c]) : clusters[c][m] = j)
                      <=> (j \notin before
                           /\ atLeast(call.embeddings[seed], call.embeddings[j], call.p, call.q))
               /\ Len(clusters[c]) = 1 =>
                    /\ call.result.chunks[c] = call.chunks[seed]
                    /\ call.result.embeddings[c] = call.embeddings[seed]

\* The second chunk is in the cluster of the first; the third is similar to the
\* second but not to the first, and is a cluster of its own that passes through.
C24_Witness ==
  /\ call.fn = "mergeSimilarChunks"
  /\ Len(call.chunks) = 3
  /\ call.result.clusters = << << 1, 2 >>, << 3 >> >>
  /\ atLeast(call.embeddings[2], call.embeddings[3], call.p, call.q)
  /\ ~atLeast(call.embeddings[1], call.embeddings[3], call.p, call.q)
  /\ call.result.embeddings[2] = call.embeddings[3]
  /\ call.result.chunks[2] = call.chunks[3]

\* ---------------------------------------------------------------- chunkText

\* A turn of the sliding-window loop after which the loop goes on.
loopGoesOn ==
  /\ call.fn = "chunkText"
  /\ call'.fn = "chunkText"
  /\ call'.turns = call.turns + 1
  /\ ~call'.st.done

\* C22: for every text, size and overlap (overlap >= size included), start is
\* strictly larger after every turn of the sliding-window loop that does not
\* leave the loop, so the loop ends.
C22_StartAdvances ==
  [][loopGoesOn => call'.st.start > call.st.start]_vars

\* ------------------------------------------------------ chunkStructuredText

\* The header section of a table description and its lines after the separator.
headerOf(text) == Join(SubSeq(Split(text, "\n"), 1, headerEnd(Split(text, "\n"), 0)), "\n")

rowLinesOf(text) ==
  LET lines == Split(text, "\n")
      h == headerEnd(lines, 0)
      first == IF h < Len(lines) /\ Includes(lines[h + 1], "---") THEN h + 1 ELSE h
  IN SubSeq(lines, first + 1, Len(lines))

\* The positions in lines at which a logical row starts.
rowStarts(lines) == {k \in 1..Len(lines) : StartsWith(lines[k], "Row ")}

\* The logical row that starts at line k: the line and its continuation lines.
rowAt(lines, k) ==
  SubSeq(lines, k, SetMin({m \in rowStarts(lines) \cup {Len(lines) + 1} : m > k}) - 1)

\* Every single row fits under the bound together with the header.
rowsFit(text, maxChunkSize) ==
  \A k \in rowStarts(rowLinesOf(text)) :
    Len(headerOf(text)) + 1 + Len(Join(rowAt(rowLinesOf(text), k), "\n")) <= maxChunkSize

\* The lines of a chunk after its copy of the header.
bodyOf(chunk, header) == Split(Slice(chunk, Len(header) + 1, Len(chunk)), "\n")

RECURSIVE bodies(_, _)
bodies(chunks, header) ==
  IF chunks = << >> THEN << >>
  ELSE bodies(SubSeq(chunks, 1, Len(chunks) - 1), header) \o bodyOf(chunks[Len(chunks)], header)

\* Every chunk is the header and whole rows: it starts with the header, its body
\* starts at a row start, and the bodies together are the row lines in order.
rowsUnsplit ==
  call.fn = "chunkStructuredText" /\ rowsFit(call.text, call.maxChunkSize) =>
    /\ \A c \in 1..Len(call.result) :
         /\ StartsWith(call.result[c], headerOf(call.text) \o "\n")
         /\ StartsWith(bodyOf(call.result[c], headerOf(call.text))[1], "Row ")
    /\ bodies(call.result, headerOf(call.text)) = rowLinesOf(call.text)

chunksUnderBound ==
  call.fn = "chunkStructuredText" /\ rowsFit(call.text, call.maxChunkSize) =>
    \A c \in 1..Len(call.result) : Len(call.result[c]) <= call.maxChunkSize

\* C23: for a table description whose single rows each fit under the bound
\* together with the header, every chunk of the structured chunker, header
\* included, is at most the bound long, and no row is split across two chunks.
C23_StructuredChunks == chunksUnderBound /\ rowsUnsplit

\* --------------------------------------------------------- delimited files

\* The text of the document is the table description parseCSV makes of its bytes.
tableDescribed(document) ==
  /\ parseCSV(document.fileName, document.fileData.text).ok
  /\ document.textContent = parseCSV(document.fileName, document.fileData.text).text

\* C28: processStoredDocument chunks a document in structured mode exactly when
\* extractText produced the table description for it, whatever the media type
\* and the file name are.
C28_StructuredIffTable ==
  (job.op = "processStoredDocument" /\ job.pc \in {"embed", "store", "mark"}) =>
    /\ isCSV(job.document) <=> tableDescribed(job.document)
    /\ job.chunks = chunkText(job.document.textContent, ChunkSize, ChunkOverlap,
                              tableDescribed(job.document))

\* --------------------------------------------------- writes in flight

\* C25: no two writes to the local store are in flight at the same time for one
\* owner's data: the store writes of a processing call are issued one after
\* another.
C25_OneWriteInFlight ==
  \A v, w \in pending : v.rec.userId = w.rec.userId => v = w

\* ------------------------------------------------- lifecycle of a document

\* The step is an uploadDocument: a new document id is drawn and no processing
\* call moves.
stepOfUpload == uuids'.doc = uuids.doc + 1 /\ job' = job

\* C26: uploadDocument creates a document unprocessed, with empty text and its
\* raw bytes; the text of a document changes only from empty to non-empty and
\* only in the extraction stage of processStoredDocument; its processed flag
\* changes only from false to true, as the last store write of a
\* processStoredDocument that then returns, and never goes back to false.
C26_Lifecycle ==
  [][\A d \in 1..MaxDocs :
       /\ (d \notin DOMAIN documents /\ d \in DOMAIN documents' /\ stepOfUpload) =>
            /\ ~documents'[d].processed
            /\ documents'[d].textContent = ""
            /\ documents'[d].fileData # NoContent
       /\ (d \in DOMAIN documents /\ d \in DOMAIN documents') =>
            /\ documents'[d].textContent # documents[d].textContent =>
                 /\ documents[d].textContent = ""
                 /\ job.op = "processStoredDocument" /\ job.pc = "extract"
                 /\ job.documentId = d
            /\ documents'[d].processed # documents[d].processed =>
                 /\ ~documents[d].processed
                 /\ job.op = "processStoredDocument" /\ job.pc = "mark"
                 /\ job.documentId = d
                 /\ job'.pc = "done"
                 /\ ~(\E w \in pending' : w.live)
    ]_vars

C26_Witness ==
  /\ job.op = "processStoredDocument" /\ job.pc = "done"
  /\ job.documentId \in DOMAIN documents
  /\ documents[job.documentId].processed
  /\ documents[job.documentId].textContent # ""
  /\ documents[job.documentId].fileData # NoContent

\* ------------------------------------------------- processStoredDocuments

\* The document is stored processed, with its text and a complete run of
\* embedding records, none still in flight.
fullyProcessed(documentId) ==
  /\ documentId \in DOMAIN documents
  /\ documents[documentId].processed
  /\ documents[documentId].textContent # ""
  /\ ~(\E w \in pending : w.rec.documentId = documentId)
  /\ LET records == {k \in DOMAIN embeddings : embeddings[k].documentId = documentId}
     IN /\ records # {}
        /\ {embeddings[k].chunkIndex : k \in records} = 0..(Cardinality(records) - 1)

\* The document and its embedding records are as the call found them.
untouched(documentId) ==
  /\ getItem(documents, documentId) = getItem(call.documentsBefore, documentId)
  /\ ~(\E w \in pending : w.rec.documentId = documentId)
  /\ {k \in DOMAIN embeddings : embeddings[k].documentId = documentId}
       = {k \in DOMAIN call.embeddingsBefore :
            call.embeddingsBefore[k].documentId = documentId}

\* C27: processStoredDocuments takes the ids one at a time in list order: while
\* the i-th is processed, and after its failure has failed the call with that
\* error, every document before i is fully processed with its embeddings and
\* every document after i is as the call found it.
C27_OneAtATime ==
  (call.fn = "processStoredDocuments" /\ call.pc \in {"await", "failed"}) =>
    /\ job.pc # "failed" => job.documentId = call.documentIds[call.i]
    /\ call.pc = "failed" => (job.pc = "failed" /\ call.error = job.error)
    /\ \A k \in DOMAIN call.documentIds :
         /\ k < call.i => fullyProcessed(call.documentIds[k])
         /\ k > call.i => untouched(call.documentIds[k])
    /\ call.results = SubSeq(call.documentIds, 1, call.i - 1)

\* The second document of a list has failed after the first was processed.
C27_Witness ==
  /\ call.fn = "processStoredDocuments" /\ call.pc = "failed"
  /\ call.i = 2
  /\ fullyProcessed(call.documentIds[1])
  /\ call.error = "Cohere embed error"

\* ------------------------------------------- deleteDocument while processing

\* The processStoredDocument in flight no longer finds its document in the
\* store: deleteDocument has run since the call read it.
deletedInFlight ==
  /\ job.op = "processStoredDocument"
  /\ Running
  /\ job.documentId \notin DOMAIN documents

\* C29: when deleteDocument(d) has run while processStoredDocument(d) is in
\* flight, then once the processing call has ended the store holds neither the
\* document d nor an embedding record of d, stored or still being written.
C29_DeleteStays ==
  [][(deletedInFlight /\ job'.pc \in {"done", "failed"}) =>
       /\ job.documentId \notin DOMAIN documents'
       /\ \A k \in DOMAIN embeddings' : embeddings'[k].documentId # job.documentId
       /\ \A w \in pending' : w.rec.documentId # job.documentId
    ]_vars

\* ------------------------------------------------------- the API key form

\* The step starts a processStoredDocument.
startsProcessing ==
  /\ ~Running
  /\ job' # job
  /\ job'.op = "processStoredDocument"

\* C30: once handleSetKey has ended with a validation failure, there is no
\* active client (hasCohereApiKey() is false), the rejected key is not in local
\* storage, and a processStoredDocument started then fails as not configured,
\* without a call to the service.
C30_RejectedKeyInactive ==
  [][(call'.fn = "handleSetKey" /\ call'.pc = "failed") =>
       /\ ~cohereClient'
       /\ call'.saved # call'.clientKey
       /\ startsProcessing =>
            /\ job'.pc = "failed"
            /\ job'.error = "Cohere API key not set. Please provide your API key first."
    ]_vars

====
